---- MODULE Spec2Model ----
(***************************************************************************)
(* Model of the gut-matrix server: the list handlers (create / update /    *)
(* delete over the key-value store), the merge arithmetic of utils.ts and  *)
(* the in-memory rate limiter of rateLimit.ts.                             *)
(*                                                                         *)
(* Conventions.                                                            *)
(*  - A JavaScript string is a sequence of one-character strings, so that  *)
(*    trim() and slice() are computed, not assumed.                        *)
(*  - A JavaScript object is a record; an absent (undefined) field is a    *)
(*    field missing from the record's DOMAIN.                              *)
(*  - A one-decimal average is kept in tenths (45 stands for 4.5).         *)
(*  - updatedAt is not part of the state; only its length counts, in the   *)
(*    size of the serialized document.                                     *)
(***************************************************************************)
EXTENDS Integers, Sequences, FiniteSets, TLC

----------------------------------------------------------------------------
(* Bounds of the model *)

MaxVersion == 3        \* no update is started on a list at this version
MaxTime == 2500        \* the clock stops here (milliseconds)
MaxLimit == 2          \* largest per-key limit of the rate-limit runs
MaxCalls == MaxLimit + 2    \* cap of the per-window call counter (history)
MaxClock == 60001      \* the clock of the governance runs stops here (milliseconds)

----------------------------------------------------------------------------
(* Small helpers *)

Min(a, b) == IF a < b THEN a ELSE b
Max(a, b) == IF a > b THEN a ELSE b

Has(r, f) == f \in DOMAIN r

\* Math.ceil(n / d) for n >= 0, d > 0
CeilDiv(n, d) == (n + d - 1) \div d

Str1 == <<"a">>
Blank == <<" ">>
UntitledItem == <<"U","n","t","i","t","l","e","d"," ","I","t","e","m">>

RECURSIVE TrimStart(_)
TrimStart(s) == IF s # <<>> /\ Head(s) = " " THEN TrimStart(Tail(s)) ELSE s

RECURSIVE TrimEnd(_)
TrimEnd(s) ==
    IF s # <<>> /\ s[Len(s)] = " " THEN TrimEnd(SubSeq(s, 1, Len(s) - 1)) ELSE s

\* String.prototype.trim
Trim(s) == TrimEnd(TrimStart(s))

\* String.prototype.slice(0, n)
Slice(s, n) == SubSeq(s, 1, Min(n, Len(s)))

----------------------------------------------------------------------------
(* utils.ts *)

clamp(value, min, max) == Max(min, Min(value, max))

calculateScore(g, u, t) == g * u * t

DefaultScale == [min |-> 1, max |-> 5]

\* scale: a record with optional fields min, max
normalizeScale(scale, envMin, envMax) ==
    LET min == IF Has(scale, "min") THEN scale.min ELSE 1
        max == IF Has(scale, "max") THEN scale.max ELSE 5
        normalizedMin == clamp(min, 1, envMin)
        normalizedMax == clamp(max, 2, envMax)
    IN  IF normalizedMin >= normalizedMax
        THEN DefaultScale
        ELSE [min |-> normalizedMin, max |-> normalizedMax]

\* item: a record with optional fields id, label, scores, avgScore, notes;
\* uuid: the value crypto.randomUUID() returns when it is called.
normalizeItem(item, scale, maxItems, uuid) ==
    LET id == IF Has(item, "id") /\ item.id # <<>> THEN item.id ELSE uuid
        lab0 == Trim(Slice(IF Has(item, "label") THEN item.label ELSE <<>>, 200))
        label == IF lab0 # <<>> THEN lab0 ELSE UntitledItem
        scores == IF Has(item, "scores") THEN item.scores ELSE <<>>
        base == [id |-> id, label |-> label, scores |-> scores]
        withAvg == IF Has(item, "avgScore")
                   THEN [f \in DOMAIN base \cup {"avgScore"} |->
                            IF f = "avgScore" THEN item.avgScore ELSE base[f]]
                   ELSE base
    IN  IF Has(item, "notes") /\ item.notes # <<>>
        THEN [f \in DOMAIN withAvg \cup {"notes"} |->
                 IF f = "notes" THEN Trim(Slice(item.notes, 1024)) ELSE withAvg[f]]
        ELSE withAvg

\* Number(x) || d
NumOr(x, d) == IF x = 0 THEN d ELSE x

\* Number(score[f]) || d: an absent field gives NaN, which is falsy like 0
FieldOr(score, f, d) == IF Has(score, f) THEN NumOr(score[f], d) ELSE d

normalizeUserScoreTrusting(score, scale) ==
    LET g == clamp(FieldOr(score, "g", scale.min), scale.min, scale.max)
        u == clamp(FieldOr(score, "u", scale.min), scale.min, scale.max)
        t == clamp(FieldOr(score, "t", scale.min), scale.min, scale.max)
    IN  [g |-> g, u |-> u, t |-> t,
         score |-> IF Has(score, "score") THEN score.score ELSE calculateScore(g, u, t)]

\* score: a record with optional fields g, u, t (and a score that is ignored)
normalizeUserScore(score, scale) ==
    LET g == clamp(FieldOr(score, "g", scale.min), scale.min, scale.max)
        u == clamp(FieldOr(score, "u", scale.min), scale.min, scale.max)
        t == clamp(FieldOr(score, "t", scale.min), scale.min, scale.max)
    IN  [g |-> g, u |-> u, t |-> t, score |-> calculateScore(g, u, t)]

RECURSIVE SumField(_, _, _)
SumField(scores, users, f) ==
    IF users = {} THEN 0
    ELSE LET x == CHOOSE y \in users : TRUE
         IN  scores[x][f] + SumField(scores, users \ {x}, f)

TruncTenths(sum, count) == (10 * sum) \div count

\* Math.round((sum / count) * 10) / 10, in tenths
RoundTenths(sum, count) == (20 * sum + count) \div (2 * count)

\* the result is a set: empty when the function returns undefined
calculateAverageScore(scores) ==
    LET count == Cardinality(DOMAIN scores)
    IN  IF count = 0 THEN {}
        ELSE {[g |-> RoundTenths(SumField(scores, DOMAIN scores, "g"), count),
               u |-> RoundTenths(SumField(scores, DOMAIN scores, "u"), count),
               t |-> RoundTenths(SumField(scores, DOMAIN scores, "t"), count),
               score |-> RoundTenths(SumField(scores, DOMAIN scores, "score"), count),
               count |-> count]}

mergeUserScoreDropOthers(item, userId, userScore, scale) ==
    LET normalizedScore == normalizeUserScore(userScore, scale)
        updatedScores == [x \in {userId} |-> normalizedScore]
        avg == calculateAverageScore(updatedScores)
    IN  [f \in DOMAIN item \cup {"scores", "avgScore"} |->
            CASE f = "scores" -> updatedScores
              [] f = "avgScore" -> CHOOSE a \in avg : TRUE
              [] OTHER -> item[f]]

mergeUserScore(item, userId, userScore, scale) ==
    LET normalizedScore == normalizeUserScore(userScore, scale)
        updatedScores == [x \in DOMAIN item.scores \cup {userId} |->
                             IF x = userId THEN normalizedScore ELSE item.scores[x]]
        avg == calculateAverageScore(updatedScores)
    IN  [f \in DOMAIN item \cup {"scores", "avgScore"} |->
            CASE f = "scores" -> updatedScores
              [] f = "avgScore" -> CHOOSE a \in avg : TRUE
              [] OTHER -> item[f]]

\* A user identifier is written as the lengths of its dash-separated groups
\* and whether every character of every group is a hexadecimal digit.
UserIdShape(userId) ==
    CASE userId = "userA" -> [groups |-> <<8, 4, 4, 4, 12>>, hex |-> TRUE]
      [] userId = "userB" -> [groups |-> <<8, 4, 4, 4, 12>>, hex |-> TRUE]
      [] userId = "short" -> [groups |-> <<8, 4, 4, 4, 11>>, hex |-> TRUE]
      [] OTHER -> [groups |-> <<9>>, hex |-> FALSE]

validateUserIdAny(userId) == TRUE

validateUserId(userId) ==
    LET shape == UserIdShape(userId)
    IN  shape.groups = <<8, 4, 4, 4, 12>> /\ shape.hex

sanitizeTitle(title) == Slice(Trim(title), 200)

validateListAnyLength(data, maxItems) == [valid |-> TRUE]

\* data: the request body; the result is the record {valid, error}
validateList(data, maxItems) ==
    IF Has(data, "items") /\ Len(data.items) > maxItems
    THEN [valid |-> FALSE, error |-> "Too many items"]
    ELSE IF /\ Has(data, "scale")
            /\ Has(data.scale, "min") /\ Has(data.scale, "max")
            /\ data.scale.min >= data.scale.max
         THEN [valid |-> FALSE, error |-> "Scale min must be less than max"]
         ELSE [valid |-> TRUE]

getListKey(slug) == <<"list", slug>>

----------------------------------------------------------------------------
(* rateLimit.ts *)

NoEntry == [absent |-> TRUE]

cleanupAll(rl, t) == [k \in DOMAIN rl |-> NoEntry]

cleanupAtReset(rl, t) ==
    [k \in DOMAIN rl |->
        IF rl[k] # NoEntry /\ t >= rl[k].resetAt THEN NoEntry ELSE rl[k]]

\* for (const [key, value] of rateLimitStore.entries()) if (now > value.resetAt) delete
cleanupExpired(rl, t) ==
    [k \in DOMAIN rl |->
        IF rl[k] # NoEntry /\ t > rl[k].resetAt THEN NoEntry ELSE rl[k]]

\* One call of checkRateLimit on the map rl at time t. sweep is the outcome
\* of Math.random() < 0.01. The result is the returned object (res) and the
\* map after the call (rl).
checkRateLimitNoCap(rl, key, limit, windowMs, t, sweep) ==
    LET rl1 == IF sweep THEN cleanupExpired(rl, t) ELSE rl
        entry == rl1[key]
    IN  IF entry = NoEntry \/ t > entry.resetAt
        THEN [res |-> [allowed |-> TRUE, current |-> 1],
              rl |-> [rl1 EXCEPT ![key] = [count |-> 1, resetAt |-> t + windowMs]]]
        ELSE [res |-> [allowed |-> TRUE, current |-> entry.count + 1],
              rl |-> [rl1 EXCEPT ![key].count = entry.count + 1]]

checkRateLimitKeepWindow(rl, key, limit, windowMs, t, sweep) ==
    LET rl1 == IF sweep THEN cleanupExpired(rl, t) ELSE rl
        entry == rl1[key]
    IN  IF entry = NoEntry
        THEN [res |-> [allowed |-> TRUE, current |-> 1],
              rl |-> [rl1 EXCEPT ![key] = [count |-> 1, resetAt |-> t + windowMs]]]
        ELSE IF t > entry.resetAt
        THEN [res |-> [allowed |-> TRUE, current |-> 1],
              rl |-> [rl1 EXCEPT ![key].count = 1]]
        ELSE IF entry.count >= limit
        THEN [res |-> [allowed |-> FALSE,
                       retryAfter |-> CeilDiv(entry.resetAt - t, 1000),
                       current |-> entry.count],
              rl |-> rl1]
        ELSE [res |-> [allowed |-> TRUE, current |-> entry.count + 1],
              rl |-> [rl1 EXCEPT ![key].count = entry.count + 1]]

checkRateLimit(rl, key, limit, windowMs, t, sweep) ==
    LET rl1 == IF sweep THEN cleanupExpired(rl, t) ELSE rl
        entry == rl1[key]
    IN  IF entry = NoEntry \/ t > entry.resetAt
        THEN [res |-> [allowed |-> TRUE, current |-> 1],
              rl |-> [rl1 EXCEPT ![key] = [count |-> 1, resetAt |-> t + windowMs]]]
        ELSE IF entry.count >= limit
        THEN [res |-> [allowed |-> FALSE,
                       retryAfter |-> CeilDiv(entry.resetAt - t, 1000),
                       current |-> entry.count],
              rl |-> rl1]
        ELSE [res |-> [allowed |-> TRUE, current |-> entry.count + 1],
              rl |-> [rl1 EXCEPT ![key].count = entry.count + 1]]

MinuteMs == 60000
HourMs == 3600000
DayMs == 86400000

UserLimitsHourFirst(userId, action, e) ==
    IF action = "save"
    THEN << [key |-> <<"user", userId, "save", "hour">>,
             limit |-> e.MAX_SAVES_PER_USER_PER_HOUR,
             window |-> HourMs,
             message |-> "Too many saves per hour"],
            [key |-> <<"user", userId, "save", "minute">>,
             limit |-> e.MAX_SAVES_PER_USER_PER_MINUTE,
             window |-> MinuteMs,
             message |-> "Too many saves per minute"] >>
    ELSE << [key |-> <<"user", userId, "create", "day">>,
             limit |-> e.MAX_LISTS_PER_USER_PER_DAY,
             window |-> DayMs,
             message |-> "Too many lists created today"] >>

\* The windows that gate an action of a user, in the order they are checked.
UserLimits(userId, action, e) ==
    IF action = "save"
    THEN << [key |-> <<"user", userId, "save", "minute">>,
             limit |-> e.MAX_SAVES_PER_USER_PER_MINUTE,
             window |-> MinuteMs,
             message |-> "Too many saves per minute"],
            [key |-> <<"user", userId, "save", "hour">>,
             limit |-> e.MAX_SAVES_PER_USER_PER_HOUR,
             window |-> HourMs,
             message |-> "Too many saves per hour"] >>
    ELSE << [key |-> <<"user", userId, "create", "day">>,
             limit |-> e.MAX_LISTS_PER_USER_PER_DAY,
             window |-> DayMs,
             message |-> "Too many lists created today"] >>

\* the loop of checkUserRateLimits from check number i on
RECURSIVE RunChecks(_, _, _, _, _)
RunChecks(rl, checks, i, t, sweeps) ==
    IF i > Len(checks)
    THEN [res |-> [allowed |-> TRUE], rl |-> rl]
    ELSE LET check == checks[i]
             r == checkRateLimit(rl, check.key, check.limit, check.window, t, sweeps[i])
         IN  IF ~r.res.allowed
             THEN [res |-> [allowed |-> FALSE,
                            error |-> check.message,
                            current |-> r.res.current,
                            limit |-> check.limit,
                            retryAfter |-> r.res.retryAfter],
                   rl |-> r.rl]
             ELSE RunChecks(r.rl, checks, i + 1, t, sweeps)

checkUserRateLimitsAlways(rl, userId, action, e, t, sweeps) ==
    RunChecks(rl, UserLimits(userId, action, e), 1, t, sweeps)

checkUserRateLimits(rl, userId, action, e, t, sweeps) ==
    IF e.ENABLE_RATE_LIMITING # "true"
    THEN [res |-> [allowed |-> TRUE], rl |-> rl]
    ELSE RunChecks(rl, UserLimits(userId, action, e), 1, t, sweeps)

checkListRateLimitsOneWindow(rl, slug, e, t, sweep) ==
    IF e.ENABLE_RATE_LIMITING # "true"
    THEN [res |-> [allowed |-> TRUE], rl |-> rl]
    ELSE LET limit == e.MAX_SAVES_PER_LIST_PER_MINUTE
             r == checkRateLimit(rl, <<"list", "s1", "save", "minute">>,
                                 limit, MinuteMs, t, sweep)
         IN  IF ~r.res.allowed
             THEN [res |-> [allowed |-> FALSE,
                            error |-> "This list is being updated too frequently",
                            current |-> r.res.current,
                            limit |-> limit,
                            retryAfter |-> r.res.retryAfter],
                   rl |-> r.rl]
             ELSE [res |-> [allowed |-> TRUE], rl |-> r.rl]

checkListRateLimits(rl, slug, e, t, sweep) ==
    IF e.ENABLE_RATE_LIMITING # "true"
    THEN [res |-> [allowed |-> TRUE], rl |-> rl]
    ELSE LET limit == e.MAX_SAVES_PER_LIST_PER_MINUTE
             r == checkRateLimit(rl, <<"list", slug, "save", "minute">>,
                                 limit, MinuteMs, t, sweep)
         IN  IF ~r.res.allowed
             THEN [res |-> [allowed |-> FALSE,
                            error |-> "This list is being updated too frequently",
                            current |-> r.res.current,
                            limit |-> limit,
                            retryAfter |-> r.res.retryAfter],
                   rl |-> r.rl]
             ELSE [res |-> [allowed |-> TRUE], rl |-> r.rl]

RECURSIVE Digits(_)
Digits(n) == IF n < 10 THEN 1 ELSE 1 + Digits(n \div 10)

\* length of the JSON text of a number kept in tenths
TenthsLen(x) == IF x % 10 = 0 THEN Digits(x \div 10) ELSE Digits(x \div 10) + 2

UserIdLen == 36

\* {"g":5,"u":4,"t":3,"score":60}
UserScoreLen(s) == 25 + Digits(s.g) + Digits(s.u) + Digits(s.t) + Digits(s.score)

RECURSIVE ScoresBodyLen(_, _)
ScoresBodyLen(scores, users) ==
    IF users = {} THEN 0
    ELSE LET x == CHOOSE y \in users : TRUE
         IN  (UserIdLen + 3) + UserScoreLen(scores[x])
             + (IF users = {x} THEN 0 ELSE 1)
             + ScoresBodyLen(scores, users \ {x})

\* {"g":4,"u":4.5,"t":3.5,"score":60,"count":2}
AvgScoreLen(a) ==
    34 + TenthsLen(a.g) + TenthsLen(a.u) + TenthsLen(a.t) + TenthsLen(a.score)
       + Digits(a.count)

\* {"id":"..","label":"..","scores":{..},"avgScore":{..},"notes":".."}
ItemLen(item) ==
    6 + (Len(item.id) + 2) + 9 + (Len(item.label) + 2)
      + 10 + 2 + ScoresBodyLen(item.scores, DOMAIN item.scores)
      + (IF Has(item, "avgScore") THEN 12 + AvgScoreLen(item.avgScore) ELSE 0)
      + (IF Has(item, "notes") THEN 9 + Len(item.notes) + 2 ELSE 0)
      + 1

RECURSIVE ItemsBodyLen(_)
ItemsBodyLen(items) ==
    IF items = <<>> THEN 0
    ELSE ItemLen(Head(items)) + (IF Len(items) > 1 THEN 1 ELSE 0)
         + ItemsBodyLen(Tail(items))

UpdatedAtLen == 24

\* new TextEncoder().encode(JSON.stringify(list)).length, for ASCII text:
\* {"title":"..","items":[..],"scale":{"min":1,"max":5},"updatedAt":"..","version":1}
ListBytes(list) ==
    9 + (Len(list.title) + 2) + 10 + ItemsBodyLen(list.items) + 1
      + 16 + Digits(list.scale.min) + 7 + Digits(list.scale.max) + 1
      + 13 + (UpdatedAtLen + 2) + 11 + Digits(list.version) + 1

\* new TextEncoder().encode(data).length of a text of doc.ascii one-byte
\* characters and doc.emoji characters outside the basic plane (four bytes
\* each in UTF-8, two code units each in data.length)
Utf8Length(doc) == doc.ascii + 4 * doc.emoji

BytesPerKB == 1024

\* (bytes / 1024).toFixed(1), in tenths of a KB: the nearest tenth, the
\* larger one of two equally near
ToFixed1(bytes) == (20 * bytes + BytesPerKB) \div (2 * BytesPerKB)

checkListSizeAllowAll(bytes, e) == [allowed |-> TRUE]

checkListSizeInclusive(bytes, e) ==
    IF bytes >= e.LIST_MAX_SIZE_KB * BytesPerKB
    THEN [allowed |-> FALSE,
          error |-> [sizeKB |-> ToFixed1(bytes), maxSizeKB |-> e.LIST_MAX_SIZE_KB]]
    ELSE [allowed |-> TRUE]

\* sizeKB > maxSizeKB where sizeKB = bytes / 1024 (exact: a division by a
\* power of two); error stands for the message, by the two numbers it shows
checkListSize(bytes, e) ==
    IF bytes > e.LIST_MAX_SIZE_KB * BytesPerKB
    THEN [allowed |-> FALSE,
          error |-> [sizeKB |-> ToFixed1(bytes), maxSizeKB |-> e.LIST_MAX_SIZE_KB]]
    ELSE [allowed |-> TRUE]

----------------------------------------------------------------------------
(* functions/api/list/[slug].ts: the merge of onRequestPut *)

SetField(r, f, v) == [x \in DOMAIN r \cup {f} |-> IF x = f THEN v ELSE r[x]]

\* 'g' in item || 'u' in item || 't' in item
isUserItemUpdate(item) == Has(item, "g") \/ Has(item, "u") \/ Has(item, "t")

\* existing.items.find(e => e.id === id): the set holding the first match
FindById(items, id) ==
    LET idx == {i \in 1..Len(items) : items[i].id = id}
    IN  IF idx = {} THEN {}
        ELSE {items[CHOOSE i \in idx : \A j \in idx : i <= j]}

StructuralItemsFresh(existing, incoming, scale, maxItems, uuids) ==
    LET inc == Slice(incoming.items, maxItems)
    IN  [i \in 1..Len(inc) |-> normalizeItem(inc[i], scale, maxItems, uuids[i])]

\* lines 133-148: the items of a structural change
StructuralItems(existing, incoming, scale, maxItems, uuids) ==
    LET inc == Slice(incoming.items, maxItems)
    IN  [i \in 1..Len(inc) |->
            LET incomingItem == inc[i]
                found == IF Has(incomingItem, "id")
                         THEN FindById(existing.items, incomingItem.id)
                         ELSE {}
            IN  IF found # {}
                THEN LET existingItem == CHOOSE e \in found : TRUE
                         n == normalizeItem(existingItem, scale, maxItems, uuids[i])
                         withLabel ==
                             SetField(n, "label",
                                 IF Has(incomingItem, "label") /\ incomingItem.label # <<>>
                                 THEN incomingItem.label
                                 ELSE existingItem.label)
                     IN  IF Has(incomingItem, "notes")
                         THEN SetField(withLabel, "notes", incomingItem.notes)
                         ELSE IF Has(existingItem, "notes")
                              THEN SetField(withLabel, "notes", existingItem.notes)
                              ELSE [f \in DOMAIN withLabel \ {"notes"} |-> withLabel[f]]
                ELSE normalizeItem(incomingItem, scale, maxItems, uuids[i])]

\* lines 152-177: the acting user's fields of incoming.items[index] go into
\* the item at the same index
MergeAt(item, incoming, index, scale) ==
    IF index > Len(incoming.items) \/ ~isUserItemUpdate(incoming.items[index])
    THEN item
    ELSE LET incomingItem == incoming.items[index]
             i1 == IF Has(incomingItem, "label")
                   THEN SetField(item, "label", incomingItem.label) ELSE item
             i2 == IF Has(incomingItem, "notes")
                   THEN SetField(i1, "notes", incomingItem.notes) ELSE i1
         IN  IF Has(incomingItem, "g") /\ Has(incomingItem, "u") /\ Has(incomingItem, "t")
             THEN mergeUserScore(i2, incoming.userId,
                                 [g |-> incomingItem.g, u |-> incomingItem.u,
                                  t |-> incomingItem.t,
                                  score |-> incomingItem.g * incomingItem.u * incomingItem.t],
                                 scale)
             ELSE i2

\* lines 123-186: the items of the updated list
MergedItems(existing, incoming, scale, maxItems, uuids) ==
    LET start == [i \in 1..Len(existing.items) |->
                     normalizeItem(existing.items[i], scale, maxItems, uuids[i])]
    IN  IF Has(incoming, "userId") /\ Has(incoming, "items")
        THEN LET isStructuralChange == Len(incoming.items) # Len(existing.items)
                 items == IF isStructuralChange
                          THEN StructuralItems(existing, incoming, scale, maxItems, uuids)
                          ELSE start
             IN  [i \in 1..Len(items) |-> MergeAt(items[i], incoming, i, scale)]
        ELSE IF Has(incoming, "items")
        THEN LET inc == Slice(incoming.items, maxItems)
             IN  [i \in 1..Len(inc) |-> normalizeItem(inc[i], scale, maxItems, uuids[i])]
        ELSE start

SameVersion(existing) == existing.version

NextVersion(existing) == existing.version + 1

\* lines 118-197: the list that the update writes
UpdatedList(existing, incoming, e, uuids) ==
    LET scale == IF Has(incoming, "scale")
                 THEN normalizeScale(incoming.scale, e.MIN_SCALE, e.MAX_SCALE)
                 ELSE existing.scale
    IN  [title |-> IF Has(incoming, "title")
                   THEN sanitizeTitle(incoming.title) ELSE existing.title,
         items |-> MergedItems(existing, incoming, scale, e.MAX_ITEMS, uuids),
         scale |-> scale,
         version |-> NextVersion(existing)]

\* line 110
IsConflictMissingVersion(incoming, existing) ==
    IF Has(incoming, "version") THEN incoming.version # existing.version ELSE TRUE

IsConflictIgnoreVersion(incoming, existing) == FALSE

IsConflict(incoming, existing) ==
    Has(incoming, "version") /\ incoming.version # existing.version

----------------------------------------------------------------------------
(* The inputs of the model *)

Procs == {"p1", "p2"}
Slugs == {"s1"}
\* the lists of the governance runs
GovSlugs == {"s1", "s2"}
Users == {"userA", "userB"}
Anonymous == "anonymous"
UUIDs == {<<"x">>}

Id1 == <<"1">>
Id2 == <<"2">>

T1 == [g |-> 5, u |-> 4, t |-> 3]
T2 == [g |-> 10, u |-> 0, t |-> 3]

Versions == 1..2

UItem(id, tr) == [id |-> id, g |-> tr.g, u |-> tr.u, t |-> tr.t]

\* bodies of user-scoped updates (UserItemUpdate[]): userA scores with T1,
\* userB with T2
UserRequests ==
    {[userId |-> "userA", items |-> << UItem(Id1, T1) >>, version |-> v] : v \in Versions}
    \cup {[userId |-> "userB", items |-> << UItem(Id1, T2) >>, version |-> v] : v \in Versions}
    \cup {[userId |-> "userB", items |-> << UItem(Id1, T2), UItem(Id2, T2) >>,
           version |-> v] : v \in Versions}
    \cup {[userId |-> "userA", items |-> << UItem(Id2, T1) >>, version |-> v] : v \in Versions}

\* bodies without user, and bodies that are rejected
OtherRequests ==
    { [title |-> <<" ", "t">>],
      [items |-> << [label |-> Blank, notes |-> Str1] >>, version |-> 1],
      [items |-> << [id |-> Id1], [id |-> Id2], [id |-> Id2] >>],
      [userId |-> "short", items |-> << UItem(Id1, T1) >>] }

Requests == UserRequests \cup OtherRequests

CreateBodies == { [title |-> <<"t", " ">>], [scale |-> [max |-> 9]] }

\* the map takes any string as key: every identifier a request can carry
UserKeys ==
    {<<"user", u, "save", w>> : u \in Users \cup {"short"}, w \in {"minute", "hour"}}
    \cup {<<"user", u, "create", "day">> : u \in Users \cup {Anonymous}}

ListKeys == {<<"list", s, "save", "minute">> : s \in GovSlugs}

Keys == UserKeys \cup ListKeys

\* history only: the key under which all update requests to a list are counted
RequestKey(slug) == <<"list", slug, "requests">>
HistKeys == Keys \cup {RequestKey(s) : s \in GovSlugs}

\* the configuration (env) of the serving instance
Env(enabled) ==
    [ MAX_ITEMS |-> 2, MIN_SCALE |-> 1, MAX_SCALE |-> 5,
      ENABLE_RATE_LIMITING |-> enabled,
      MAX_SAVES_PER_USER_PER_MINUTE |-> 2,
      MAX_SAVES_PER_USER_PER_HOUR |-> 3,
      MAX_LISTS_PER_USER_PER_DAY |-> 2,
      MAX_SAVES_PER_LIST_PER_MINUTE |-> 3,
      LIST_MAX_SIZE_KB |-> 1 ]

----------------------------------------------------------------------------
(* The state *)

VARIABLES
    env,             \* the configuration of the instance
    store,           \* MATRIX_STORE: slug -> stored list, or NoList
    rateLimitStore,  \* rateLimit.ts: key -> {count, resetAt}, or NoEntry
    now,             \* Date.now()
    pc,              \* per request handler: "idle", "get", "put"
    req,             \* per handler: slug and body of the request in progress
    existing,        \* per handler: the list read from the store
    updated,         \* per handler: the list about to be written
    resp,            \* the response sent by the last step, if it sent one
    raced,           \* history, per handler: the users whose update with the
                     \* same expected version succeeded since the handler's read
    rlConfig,        \* per key: the limit and window its direct caller passes
    rlHist,          \* history, per key: the calls made in the current window
    rlLast,          \* history: the last direct call of checkRateLimit
    expiresIn,       \* MATRIX_STORE: slug -> seconds until the key expires
    idleDays,        \* history: slug -> days since the last put of the key
    currentList,     \* app.js: the list the page shows, or NoList (null)
    isDirty,         \* app.js: the page has unsaved edits
    conflictServerList,  \* app.js: window.conflictServerList, or NoList (null)
    pending          \* app.js: the fetches of the page that are in flight

vars == <<env, store, rateLimitStore, now, pc, req, existing, updated, resp,
          raced, rlConfig, rlHist, rlLast, expiresIn, idleDays,
          currentList, isDirty, conflictServerList, pending>>

handlerVars == <<store, pc, req, existing, updated, resp, raced>>
rlHistVars == <<rlConfig, rlHist, rlLast>>
kvVars == <<expiresIn, idleDays>>
pageState == <<currentList, isDirty, conflictServerList>>
pageVars == <<currentList, isDirty, conflictServerList, pending>>
serverVars == <<env, rateLimitStore, now, handlerVars, rlHistVars, kvVars>>

NoList == [absent |-> TRUE]
NoReq == [none |-> TRUE]
NoResp == [proc |-> "none", status |-> 0]
NoCall == [key |-> <<>>]
NoHist == [calls |-> 0, windowEnd |-> 0]
NoFetch == [state |-> "idle"]

\* the keys that the rate-limit runs call checkRateLimit on
TestKeys == {<<"user", "userA", "save", "minute">>, <<"list", "s1", "save", "minute">>}
Windows == {1000, 1200}
TickSizes == {500}

InitCommon ==
    /\ store = [s \in GovSlugs |-> NoList]
    /\ rateLimitStore = [k \in Keys |-> NoEntry]
    /\ now = 0
    /\ pc = [p \in Procs |-> "idle"]
    /\ req = [p \in Procs |-> NoReq]
    /\ existing = [p \in Procs |-> NoList]
    /\ updated = [p \in Procs |-> NoList]
    /\ resp = NoResp
    /\ raced = [p \in Procs |-> {}]
    /\ rlHist = [k \in HistKeys |-> NoHist]
    /\ rlLast = NoCall
    /\ expiresIn = [s \in GovSlugs |-> 0]
    /\ idleDays = [s \in GovSlugs |-> 0]
    /\ currentList = NoList
    /\ isDirty = FALSE
    /\ conflictServerList = NoList
    /\ pending = [f \in {"get", "save"} |-> NoFetch]

\* ENABLE_RATE_LIMITING is not set to 'true': the default
Init ==
    /\ env = Env("false")
    /\ rlConfig = [k \in Keys |-> [limit |-> 1, windowMs |-> MinuteMs]]
    /\ InitCommon

Ready(p) == pc[p] = "idle"

\* history: one more call at time t in the window of h, or the first call of
\* a new window
Bump(h, t, windowMs) ==
    IF h.calls = 0 \/ t > h.windowEnd
    THEN [calls |-> 1, windowEnd |-> t + windowMs]
    ELSE [h EXCEPT !.calls = Min(h.calls + 1, MaxCalls)]

\* the bound of the model on the version counter
BelowMaxVersion(slug) ==
    IF store[slug] = NoList THEN TRUE ELSE store[slug].version < MaxVersion

\* [slug].ts lines 207-211 and index.ts lines 62-67: the lifetime that every
\* put gives the key, Number(env.LIST_TTL_DAYS || 30) days in seconds
DefaultTtlDays == 30
SecondsPerDay == 24 * 60 * 60
ttlDays(e) == IF Has(e, "LIST_TTL_DAYS") THEN e.LIST_TTL_DAYS ELSE DefaultTtlDays
expirationTtlInHours(e) == ttlDays(e) * 60 * 60
expirationTtl(e) == ttlDays(e) * SecondsPerDay

\* MATRIX_STORE.put(slug, ..., {expirationTtl}): the key expires that many
\* seconds after this put, whatever time it had left
PutWithTtl(slug, list) ==
    /\ store' = [store EXCEPT ![slug] = list]
    /\ expiresIn' = [expiresIn EXCEPT ![slug] = expirationTtl(env)]
    /\ idleDays' = [idleDays EXCEPT ![slug] = 0]

\* the fetch of the page that handler p serves, if there is one, resolves
\* with the response r
Deliver(fetches, p, r) ==
    [f \in DOMAIN fetches |->
        IF fetches[f].state = "sent" /\ fetches[f].proc = p
        THEN [state |-> "done", kind |-> fetches[f].kind, resp |-> r]
        ELSE fetches[f]]

\* the handler returns: its locals are gone, the response is sent
Respond(p, r) ==
    /\ pc' = [pc EXCEPT ![p] = "idle"]
    /\ req' = [req EXCEPT ![p] = NoReq]
    /\ existing' = [existing EXCEPT ![p] = NoList]
    /\ updated' = [updated EXCEPT ![p] = NoList]
    /\ resp' = r
    /\ pending' = Deliver(pending, p, r)

Cleared(p) == [raced EXCEPT ![p] = {}]

----------------------------------------------------------------------------
(* POST /api/list *)

onRequestPost(p, body, userId, slug, sweeps) ==
    /\ Ready(p)
    /\ LET rateLimitCheck ==
               checkUserRateLimits(rateLimitStore, userId, "create", env, now, sweeps)
           scale == normalizeScale(IF Has(body, "scale") THEN body.scale ELSE <<>>,
                                   env.MIN_SCALE, env.MAX_SCALE)
           title == sanitizeTitle(IF Has(body, "title") THEN body.title ELSE <<>>)
           list == [title |-> title, items |-> <<>>, scale |-> scale, version |-> 1]
           sizeCheck == checkListSize(ListBytes(list), env)
       IN  /\ rateLimitStore' = rateLimitCheck.rl
           /\ IF ~rateLimitCheck.res.allowed
              THEN /\ Respond(p, [proc |-> p, status |-> 429, error |-> rateLimitCheck.res.error,
                                  retryAfter |-> rateLimitCheck.res.retryAfter])
                   /\ UNCHANGED <<store, kvVars>>
              ELSE IF ~sizeCheck.allowed
              THEN /\ Respond(p, [proc |-> p, status |-> 413])
                   /\ UNCHANGED <<store, kvVars>>
              ELSE /\ PutWithTtl(slug, list)
                   /\ Respond(p, [proc |-> p, status |-> 201, slug |-> slug])
    /\ raced' = Cleared(p)
    /\ UNCHANGED <<env, now, rlHistVars, pageState>>

----------------------------------------------------------------------------
(* GET /api/list/:slug *)

DigitValue(c) ==
    CASE c = "0" -> 0 [] c = "1" -> 1 [] c = "2" -> 2 [] c = "3" -> 3 [] c = "4" -> 4
      [] c = "5" -> 5 [] c = "6" -> 6 [] c = "7" -> 7 [] c = "8" -> 8 [] c = "9" -> 9

IsDigit(c) == c \in {"0", "1", "2", "3", "4", "5", "6", "7", "8", "9"}

RECURSIVE DigitsValue(_, _)
DigitsValue(s, acc) ==
    IF s = <<>> \/ ~IsDigit(Head(s)) THEN acc
    ELSE DigitsValue(Tail(s), 10 * acc + DigitValue(Head(s)))

\* parseInt(s): the value of the leading digits; the empty set stands for NaN
parseInt(s) ==
    IF s = <<>> \/ ~IsDigit(Head(s)) THEN {} ELSE {DigitsValue(s, 0)}

onRequestGetCounted(p, slug, clientVersion) ==
    /\ Ready(p)
    /\ LET value == store[slug]
       IN  IF value = NoList
           THEN Respond(p, [proc |-> p, status |-> 404, error |-> "List not found"])
           ELSE IF clientVersion # <<>> /\ parseInt(clientVersion) = {value.version}
           THEN Respond(p, [proc |-> p, status |-> 304])
           ELSE Respond(p, [proc |-> p, status |-> 200, body |-> value])
    /\ rateLimitStore' = checkListRateLimits(rateLimitStore, slug, env, now, FALSE).rl
    /\ raced' = Cleared(p)
    /\ UNCHANGED <<env, store, now, rlHistVars, kvVars, pageState>>

\* clientVersion: the X-Current-Version header, the empty string when the
\* request has none (both are falsy)
onRequestGet(p, slug, clientVersion) ==
    /\ Ready(p)
    /\ LET value == store[slug]
       IN  IF value = NoList
           THEN Respond(p, [proc |-> p, status |-> 404, error |-> "List not found"])
           ELSE IF clientVersion # <<>> /\ parseInt(clientVersion) = {value.version}
           THEN Respond(p, [proc |-> p, status |-> 304])
           ELSE Respond(p, [proc |-> p, status |-> 200, body |-> value])
    /\ raced' = Cleared(p)
    /\ UNCHANGED <<env, store, rateLimitStore, now, rlHistVars, kvVars, pageState>>

----------------------------------------------------------------------------
(* PUT /api/list/:slug *)

\* lines 64-102: up to the call of MATRIX_STORE.get
PutBegin(p, slug, incoming, sweeps) ==
    /\ Ready(p)
    /\ BelowMaxVersion(slug)
    /\ IF Has(incoming, "userId") /\ ~validateUserId(incoming.userId)
       THEN /\ Respond(p, [proc |-> p, status |-> 400, error |-> "Invalid user ID format"])
            /\ UNCHANGED rateLimitStore
       ELSE
       LET userRateLimit ==
               IF Has(incoming, "userId")
               THEN checkUserRateLimits(rateLimitStore, incoming.userId, "save",
                                        env, now, sweeps)
               ELSE [res |-> [allowed |-> TRUE], rl |-> rateLimitStore]
           listRateLimit ==
               checkListRateLimits(userRateLimit.rl, slug, env, now, sweeps[3])
           validation == validateList(incoming, env.MAX_ITEMS)
       IN  IF ~userRateLimit.res.allowed
           THEN /\ rateLimitStore' = userRateLimit.rl
                /\ Respond(p, [proc |-> p, status |-> 429, error |-> userRateLimit.res.error,
                               retryAfter |-> userRateLimit.res.retryAfter])
           ELSE /\ rateLimitStore' = listRateLimit.rl
                /\ IF ~listRateLimit.res.allowed
                   THEN Respond(p, [proc |-> p, status |-> 429, error |-> listRateLimit.res.error,
                                    retryAfter |-> listRateLimit.res.retryAfter])
                   ELSE IF ~validation.valid
                   THEN Respond(p, [proc |-> p, status |-> 400, error |-> validation.error])
                   ELSE /\ pc' = [pc EXCEPT ![p] = "get"]
                        /\ req' = [req EXCEPT ![p] = [slug |-> slug, body |-> incoming]]
                        /\ UNCHANGED <<existing, updated>>
                        /\ resp' = NoResp
                        /\ UNCHANGED pending
    /\ raced' = Cleared(p)
    /\ rlHist' =
           IF env.ENABLE_RATE_LIMITING # "true" THEN rlHist
           ELSE LET counted ==
                        [rlHist EXCEPT ![RequestKey(slug)] = Bump(@, now, MinuteMs)]
                    listKey == <<"list", slug, "save", "minute">>
                    reachesList ==
                        IF Has(incoming, "userId")
                        THEN /\ validateUserId(incoming.userId)
                             /\ checkUserRateLimits(rateLimitStore, incoming.userId,
                                                    "save", env, now, sweeps).res.allowed
                        ELSE TRUE
                IN  IF reachesList
                    THEN [counted EXCEPT ![listKey] = Bump(@, now, MinuteMs)]
                    ELSE counted
    /\ UNCHANGED <<env, store, now, rlConfig, rlLast, kvVars, pageState>>

\* lines 102-209: MATRIX_STORE.get returns, up to the call of MATRIX_STORE.put
PutGet(p, uuids) ==
    /\ pc[p] = "get"
    /\ BelowMaxVersion(req[p].slug)
    /\ LET incoming == req[p].body
           existingRaw == store[req[p].slug]
       IN  IF existingRaw = NoList
           THEN Respond(p, [proc |-> p, status |-> 404, error |-> "List not found"])
           ELSE IF IsConflict(incoming, existingRaw)
           THEN Respond(p, [proc |-> p, status |-> 409, conflict |-> TRUE, server |-> existingRaw])
           ELSE LET upd == UpdatedList(existingRaw, incoming, env, uuids)
                    sizeCheck == checkListSize(ListBytes(upd), env)
                IN  IF ~sizeCheck.allowed
                    THEN Respond(p, [proc |-> p, status |-> 413])
                    ELSE /\ pc' = [pc EXCEPT ![p] = "put"]
                         /\ existing' = [existing EXCEPT ![p] = existingRaw]
                         /\ updated' = [updated EXCEPT ![p] = upd]
                         /\ UNCHANGED req
                         /\ resp' = NoResp
                         /\ UNCHANGED pending
    /\ raced' = Cleared(p)
    /\ UNCHANGED <<env, store, rateLimitStore, now, rlHistVars, kvVars, pageState>>

\* the acting user of a request body
Actor(incoming) == IF Has(incoming, "userId") THEN incoming.userId ELSE Anonymous

\* q has read, has not written yet, and carries the expected version of p
SameExpectedVersion(p, q) ==
    /\ pc[p] = "put" /\ pc[q] = "put"
    /\ req[p].slug = req[q].slug
    /\ Has(req[p].body, "version") /\ Has(req[q].body, "version")
    /\ req[p].body.version = req[q].body.version

\* lines 209-213: MATRIX_STORE.put takes effect and the response is sent
PutPersist(p) ==
    /\ pc[p] = "put"
    /\ PutWithTtl(req[p].slug, updated[p])
    /\ Respond(p, [proc |-> p, status |-> 200, body |-> updated[p]])
    /\ raced' = [q \in Procs |->
                    IF q # p /\ SameExpectedVersion(p, q)
                    THEN raced[q] \cup {Actor(req[p].body)}
                    ELSE IF q = p THEN {} ELSE raced[q]]
    /\ UNCHANGED <<env, rateLimitStore, now, rlHistVars, pageState>>

----------------------------------------------------------------------------
(* DELETE /api/list/:slug *)

onRequestDelete(p, slug) ==
    /\ Ready(p)
    /\ store' = [store EXCEPT ![slug] = NoList]
    /\ expiresIn' = [expiresIn EXCEPT ![slug] = 0]
    /\ idleDays' = [idleDays EXCEPT ![slug] = 0]
    /\ Respond(p, [proc |-> p, status |-> 204])
    /\ raced' = Cleared(p)
    /\ UNCHANGED <<env, rateLimitStore, now, rlHistVars, pageState>>

----------------------------------------------------------------------------

Sweeps == [1..3 -> BOOLEAN]
NoSweeps == {[i \in 1..3 |-> FALSE]}

\* the values of crypto.randomUUID(), one per item position
UuidChoices(incoming) ==
    IF Has(incoming, "items") /\ \E i \in 1..Len(incoming.items) : ~Has(incoming.items[i], "id")
    THEN [1..3 -> UUIDs]
    ELSE {[i \in 1..3 |-> <<"x">>]}

SweepChoices == IF env.ENABLE_RATE_LIMITING = "true" THEN Sweeps ELSE NoSweeps

Next ==
    \/ \E p \in Procs, body \in CreateBodies, u \in {"userA", Anonymous},
          slug \in Slugs, sweeps \in SweepChoices :
          onRequestPost(p, body, u, slug, sweeps)
    \/ \E p \in Procs, slug \in Slugs, incoming \in Requests, sweeps \in SweepChoices :
          PutBegin(p, slug, incoming, sweeps)
    \/ \E p \in {q \in Procs : pc[q] = "get"} :
          \E uuids \in UuidChoices(req[p].body) : PutGet(p, uuids)
    \/ \E p \in Procs : PutPersist(p)
    \/ \E p \in Procs, slug \in Slugs : onRequestDelete(p, slug)

Spec == Init /\ [][Next]_vars

----------------------------------------------------------------------------
(* The rate limiter on its own: direct calls of checkRateLimit and the clock *)

InitRL ==
    /\ env = Env("true")
    /\ \E cfg \in [TestKeys -> [limit : 1..MaxLimit, windowMs : Windows]] :
           rlConfig = [k \in Keys |->
                          IF k \in TestKeys THEN cfg[k]
                          ELSE [limit |-> 1, windowMs |-> 1000]]
    /\ InitCommon

\* a caller runs checkRateLimit(key, limit, windowMs) at the current time
CallCheckRateLimit(key, sweep) ==
    LET cfg == rlConfig[key]
        r == checkRateLimit(rateLimitStore, key, cfg.limit, cfg.windowMs, now, sweep)
        h == rlHist[key]
        newWindow == h.calls = 0 \/ now > h.windowEnd
    IN  /\ rateLimitStore' = r.rl
        /\ rlHist' = [rlHist EXCEPT ![key] =
                         IF newWindow
                         THEN [calls |-> 1, windowEnd |-> now + cfg.windowMs]
                         ELSE [h EXCEPT !.calls = Min(h.calls + 1, MaxCalls)]]
        /\ rlLast' = [key |-> key, res |-> r.res, at |-> now,
                      expired |-> h.calls > 0 /\ now > h.windowEnd,
                      prevCalls |-> h.calls]
        /\ UNCHANGED <<env, now, rlConfig, handlerVars, kvVars, pageVars>>

\* time passes
Tick(d) ==
    /\ now + d <= MaxTime
    /\ now' = now + d
    /\ UNCHANGED <<env, rateLimitStore, rlHistVars, handlerVars, kvVars, pageVars>>

NextRL ==
    \/ \E key \in TestKeys, sweep \in BOOLEAN : CallCheckRateLimit(key, sweep)
    \/ \E d \in TickSizes : Tick(d)

SpecRL == InitRL /\ [][NextRL]_vars

\* the same calls with one limit and one window for both keys
InitSweep ==
    /\ env = Env("true")
    /\ \E cfg \in [limit : 1..MaxLimit, windowMs : Windows] :
           rlConfig = [k \in Keys |->
                          IF k \in TestKeys THEN cfg
                          ELSE [limit |-> 1, windowMs |-> 1000]]
    /\ InitCommon

SpecSweep == InitSweep /\ [][NextRL]_vars


----------------------------------------------------------------------------
(* The governance checks on their own: direct calls of checkUserRateLimits *)
(* and checkListRateLimits, each with the env its caller passes            *)

\* ENABLE_RATE_LIMITING is 'true'
InitLimits ==
    /\ env = Env("true")
    /\ rlConfig = [k \in Keys |-> [limit |-> 1, windowMs |-> MinuteMs]]
    /\ InitCommon

Flags == {"true", "false"}
Actions == {"save", "create"}

\* a caller runs checkUserRateLimits(userId, action, e)
CallCheckUserRateLimits(userId, action, enabled, sweeps) ==
    LET r == checkUserRateLimits(rateLimitStore, userId, action, Env(enabled),
                                 now, sweeps)
    IN  /\ rateLimitStore' = r.rl
        /\ rlLast' = [fn |-> "checkUserRateLimits", userId |-> userId,
                      action |-> action, enabled |-> enabled, res |-> r.res,
                      at |-> now, pre |-> rateLimitStore]
        /\ UNCHANGED <<env, now, rlConfig, rlHist, handlerVars, kvVars, pageVars>>

\* a caller runs checkListRateLimits(slug, e)
CallCheckListRateLimits(slug, enabled, sweep) ==
    LET r == checkListRateLimits(rateLimitStore, slug, Env(enabled), now, sweep)
    IN  /\ rateLimitStore' = r.rl
        /\ rlLast' = [fn |-> "checkListRateLimits", slug |-> slug,
                      enabled |-> enabled, res |-> r.res,
                      at |-> now, pre |-> rateLimitStore]
        /\ UNCHANGED <<env, now, rlConfig, rlHist, handlerVars, kvVars, pageVars>>

\* a minute and a millisecond pass: every per-minute window open before is
\* over
TickMinute ==
    /\ now + MinuteMs + 1 <= MaxClock
    /\ now' = now + MinuteMs + 1
    /\ UNCHANGED <<env, rateLimitStore, rlHistVars, handlerVars, kvVars, pageVars>>

NextLimits ==
    \/ \E userId \in {"userA"}, action \in Actions, enabled \in Flags,
          sweeps \in {sw \in Sweeps : ~sw[3]} :
          CallCheckUserRateLimits(userId, action, enabled, sweeps)
    \/ \E slug \in Slugs, enabled \in Flags, sweep \in BOOLEAN :
          CallCheckListRateLimits(slug, enabled, sweep)
    \/ TickMinute

SpecLimits == InitLimits /\ [][NextLimits]_vars


----------------------------------------------------------------------------
(* checkListSize on its own: direct calls with documents around the ceiling *)

MaxKB == 3
Margin == 6

InitSize ==
    /\ env \in {[Env("false") EXCEPT !.LIST_MAX_SIZE_KB = kb] : kb \in 1..MaxKB}
    /\ rlConfig = [k \in Keys |-> [limit |-> 1, windowMs |-> MinuteMs]]
    /\ InitCommon

\* the documents whose size is near a whole number of KB
Documents ==
    {[ascii |-> kb * BytesPerKB + d, emoji |-> m] :
        kb \in 0..MaxKB, d \in (0 - Margin)..Margin, m \in 0..2}

\* a caller runs checkListSize(data, env)
CallCheckListSize(doc) ==
    /\ doc.ascii >= 0
    /\ rlLast' = [fn |-> "checkListSize", doc |-> doc,
                  res |-> checkListSize(Utf8Length(doc), env)]
    /\ UNCHANGED <<env, now, rateLimitStore, rlConfig, rlHist, handlerVars, kvVars, pageVars>>

NextSize == \E doc \in Documents : CallCheckListSize(doc)

SpecSize == InitSize /\ [][NextSize]_vars


----------------------------------------------------------------------------
(* The handlers with rate limiting enabled: one handler at a time, two     *)
(* lists, and the clock                                                    *)

InitGov ==
    /\ env = Env("true")
    /\ rlConfig = [k \in Keys |-> [limit |-> 1, windowMs |-> MinuteMs]]
    /\ InitCommon

GovProcs == {"p1"}

LongNotes == [i \in 1..1000 |-> "a"]

\* bodies of the governance runs: a save of userA, a title edit without
\* user, a malformed user identifier, too many items, and an item whose notes
\* take the document over the size ceiling
GovRequests ==
    { [userId |-> "userA", items |-> << UItem(Id1, T1) >>],
      [title |-> <<" ", "t">>],
      [userId |-> "short", items |-> << UItem(Id1, T1) >>],
      [items |-> << [id |-> Id1], [id |-> Id2], [id |-> Id2] >>],
      [items |-> << [id |-> Id1, notes |-> LongNotes] >>] }

\* every call of a request sweeps, or none does
GovSweeps == {[i \in 1..3 |-> b] : b \in BOOLEAN}

\* the second list is never created: it only receives title edits
GovTargets ==
    {<<slug, incoming>> \in GovSlugs \X GovRequests :
        slug \in Slugs \/ Has(incoming, "title")}

NextGov ==
    \/ \E p \in GovProcs, body \in {[title |-> <<"t", " ">>]},
          slug \in {sl \in Slugs : store[sl] = NoList}, sweeps \in GovSweeps :
          onRequestPost(p, body, Anonymous, slug, sweeps)
    \/ \E p \in GovProcs, target \in GovTargets, sweeps \in GovSweeps :
          PutBegin(p, target[1], target[2], sweeps)
    \/ \E p \in {q \in GovProcs : pc[q] = "get"} :
          \E uuids \in UuidChoices(req[p].body) : PutGet(p, uuids)
    \/ \E p \in GovProcs : PutPersist(p)
    \/ TickMinute

SpecGov == InitGov /\ [][NextGov]_vars


----------------------------------------------------------------------------
(* The score arithmetic on its own: direct calls of normalizeUserScore and *)
(* calculateAverageScore                                                   *)

InitUtils ==
    /\ env = Env("false")
    /\ rlConfig = [k \in Keys |-> [limit |-> 1, windowMs |-> MinuteMs]]
    /\ InitCommon

\* raw factors: negative, zero, inside every scale and above every scale
RawFactors == {0 - 1, 0, 3, 10}
SuppliedScores == {7}
Scales == {[min |-> 1, max |-> 5], [min |-> 1, max |-> 3], [min |-> 2, max |-> 4]}

Restrict(r, fields) == [f \in fields |-> r[f]]

\* the raw scores: every choice of present fields and of their values
RawScores ==
    {Restrict(full, fields) :
        full \in [g : RawFactors, u : RawFactors, t : RawFactors, score : SuppliedScores],
        fields \in SUBSET {"g", "u", "t", "score"}}

\* a caller runs normalizeUserScore(score, scale)
CallNormalizeUserScore(score, scale) ==
    /\ rlLast' = [fn |-> "normalizeUserScore", score |-> score, scale |-> scale,
                  res |-> normalizeUserScore(score, scale)]
    /\ UNCHANGED <<env, now, rateLimitStore, rlConfig, rlHist, handlerVars, kvVars, pageVars>>

Scorers == {"u1", "u2", "u3", "u4"}
StoredScores ==
    {[g |-> 5, u |-> 4, t |-> 3, score |-> 60], [g |-> 3, u |-> 5, t |-> 4, score |-> 60],
     [g |-> 1, u |-> 1, t |-> 2, score |-> 2], [g |-> 2, u |-> 1, t |-> 1, score |-> 2]}

\* the score maps of up to four contributors
ScoreMaps == UNION {[who -> StoredScores] : who \in SUBSET Scorers}

\* a caller runs calculateAverageScore(scores)
CallCalculateAverageScore(scores) ==
    /\ rlLast' = [fn |-> "calculateAverageScore", scores |-> scores,
                  res |-> calculateAverageScore(scores)]
    /\ UNCHANGED <<env, now, rateLimitStore, rlConfig, rlHist, handlerVars, kvVars, pageVars>>

NextUtils ==
    \/ \E score \in RawScores, scale \in Scales : CallNormalizeUserScore(score, scale)
    \/ \E scores \in ScoreMaps : CallCalculateAverageScore(scores)

SpecUtils == InitUtils /\ [][NextUtils]_vars

----------------------------------------------------------------------------
(* Edits of one list by one client at a time: scores, labels, item         *)
(* replacement and scale changes, under two configurations of the scale    *)
(* bounds                                                                  *)

\* the default configuration, scale bounds that are narrower than the
\* default scale, and rate limiting switched on
EditEnvs ==
    {Env("false"), [Env("false") EXCEPT !.MIN_SCALE = 2, !.MAX_SCALE = 4], Env("true")}

InitEdit ==
    /\ env \in EditEnvs
    /\ rlConfig = [k \in Keys |-> [limit |-> 1, windowMs |-> MinuteMs]]
    /\ InitCommon

EditProcs == {"p1"}

\* a scores map as a client may send it inside an item
ClientScores == [userB |-> [g |-> 9, u |-> 1, t |-> 1, score |-> 7]]

RenamedLabel == <<"n">>

\* bodies of the edits: userA scores item 1; userA renames item 1 without
\* scoring; the items are replaced by item 1 alone, without and with a
\* scores map; the scale is lowered; the scale is set to one point; a
\* malformed user identifier; userA scores two items, and scores them again
\* in the other order; userA scores item 1 and empties its label; userA adds
\* item 2 with a scores map of its own
EditRequests ==
    { [userId |-> "userA", items |-> << UItem(Id1, T1) >>],
      [userId |-> "userA", items |-> << [id |-> Id1, label |-> RenamedLabel] >>],
      [items |-> << [id |-> Id1] >>],
      [items |-> << [id |-> Id1, scores |-> ClientScores] >>],
      [scale |-> [max |-> 3]],
      [scale |-> [min |-> 2, max |-> 2]],
      [userId |-> "short", items |-> << UItem(Id1, T1) >>],
      [userId |-> "userA", items |-> << UItem(Id1, T1), UItem(Id2, T2) >>],
      [userId |-> "userA", items |-> << UItem(Id2, T2), UItem(Id1, T1) >>],
      [userId |-> "userA", items |-> << SetField(UItem(Id1, T1), "label", <<>>) >>],
      [userId |-> "userA", items |-> << SetField(UItem(Id2, T1), "scores", ClientScores) >>] }

EditCreateBodies == { [title |-> <<"t">>], [scale |-> [min |-> 2, max |-> 2]] }

\* the X-Current-Version headers: none, the versions, a padded one, no number
ClientVersions == {<<>>, <<"1">>, <<"2">>, <<"0", "2">>, <<"x">>}

NextEdit ==
    \/ \E p \in EditProcs, body \in EditCreateBodies,
          slug \in {sl \in Slugs : store[sl] = NoList}, sweeps \in NoSweeps :
          onRequestPost(p, body, Anonymous, slug, sweeps)
    \/ \E p \in EditProcs, slug \in Slugs, incoming \in EditRequests, sweeps \in NoSweeps :
          PutBegin(p, slug, incoming, sweeps)
    \/ \E p \in {q \in EditProcs : pc[q] = "get"} :
          \E uuids \in UuidChoices(req[p].body) : PutGet(p, uuids)
    \/ \E p \in EditProcs : PutPersist(p)
    \/ \E p \in EditProcs, slug \in Slugs, clientVersion \in ClientVersions :
          onRequestGet(p, slug, clientVersion)
    \/ \E p \in EditProcs, slug \in Slugs : onRequestDelete(p, slug)

SpecEdit == InitEdit /\ [][NextEdit]_vars

----------------------------------------------------------------------------
(* public/app.js: compareListVersions on its own. An object of the page is *)
(* kept with its properties in insertion order, as JSON.stringify writes   *)
(* them: the scores of an item are a sequence of entries, one per user.    *)

\* JSON.stringify(item): the properties in their order
Stringify(item) == <<item.id, item.label, item.scores>>

RECURSIVE Flatten(_)
Flatten(seqs) == IF seqs = <<>> THEN <<>> ELSE Head(seqs) \o Flatten(Tail(seqs))

\* new Map(items.map(item => [item.id, item])).get(id): the last item with
\* that id, as a set
MapGet(items, id) ==
    LET idx == {i \in 1..Len(items) : items[i].id = id}
    IN  IF idx = {} THEN {}
        ELSE {items[CHOOSE i \in idx : \A j \in idx : j <= i]}

compareListVersions(localList, serverList) ==
    LET title == IF localList.title # serverList.title
                 THEN << [type |-> "title", local |-> localList.title,
                          server |-> serverList.title] >>
                 ELSE <<>>
        locals == [i \in 1..Len(localList.items) |->
                      LET localItem == localList.items[i]
                          found == MapGet(serverList.items, localItem.id)
                      IN  IF found = {}
                          THEN << [type |-> "deleted", id |-> localItem.id,
                                   label |-> localItem.label] >>
                          ELSE LET serverItem == CHOOSE x \in found : TRUE
                               IN  IF Stringify(localItem) # Stringify(serverItem)
                                   THEN << [type |-> "modified", id |-> localItem.id,
                                            label |-> localItem.label,
                                            local |-> localItem,
                                            server |-> serverItem] >>
                                   ELSE <<>>]
        servers == [i \in 1..Len(serverList.items) |->
                       LET serverItem == serverList.items[i]
                       IN  IF MapGet(localList.items, serverItem.id) = {}
                           THEN << [type |-> "added", id |-> serverItem.id,
                                    label |-> serverItem.label,
                                    item |-> serverItem] >>
                           ELSE <<>>]
    IN  title \o Flatten(locals) \o Flatten(servers)

InitCompare ==
    /\ env = Env("false")
    /\ rlConfig = [k \in Keys |-> [limit |-> 1, windowMs |-> MinuteMs]]
    /\ InitCommon

EntryA == [user |-> "userA", g |-> 5, u |-> 4, t |-> 3, score |-> 60]
EntryB == [user |-> "userB", g |-> 1, u |-> 1, t |-> 2, score |-> 2]

\* the scores of an item of the page: no entry, one, or two in either order
PageScores == {<<>>, <<EntryA>>, <<EntryA, EntryB>>, <<EntryB, EntryA>>}

PageItems ==
    {[id |-> Id1, label |-> <<"a">>, scores |-> sc] : sc \in PageScores}
    \cup {[id |-> Id2, label |-> <<"b">>, scores |-> <<>>]}

\* the item sequences of a snapshot: up to two items with different ids
PageItemSeqs ==
    {<<>>} \cup {<<x>> : x \in PageItems}
    \cup {pair \in PageItems \X PageItems : pair[1].id # pair[2].id}

LocalLists == [title : {<<"t">>}, items : PageItemSeqs]
ServerLists == [title : {<<"t">>, <<"s">>}, items : PageItemSeqs]

\* the page runs compareListVersions(localList, serverList)
CallCompareListVersions(localList, serverList) ==
    /\ rlLast' = [fn |-> "compareListVersions", local |-> localList,
                  server |-> serverList,
                  res |-> compareListVersions(localList, serverList)]
    /\ UNCHANGED <<env, now, rateLimitStore, rlConfig, rlHist, handlerVars, kvVars, pageVars>>

NextCompare ==
    \E localList \in LocalLists, serverList \in ServerLists :
        CallCompareListVersions(localList, serverList)

SpecCompare == InitCompare /\ [][NextCompare]_vars

----------------------------------------------------------------------------
(* The lifetime of a stored list.  MATRIX_STORE removes a key once the
   expirationTtl of its last put has run out.  A step is a day of the
   store's clock; rate limiting is off in these runs, so Date.now(), which
   only the rate limiter reads, is left alone. *)

TtlEnvs == {Env("false"), SetField(Env("false"), "LIST_TTL_DAYS", 2)}

InitTTL ==
    /\ env \in TtlEnvs
    /\ rlConfig = [k \in Keys |-> [limit |-> 1, windowMs |-> MinuteMs]]
    /\ InitCommon

\* bodies of the updates: a title edit; the same edit made against
\* version 1; a malformed user identifier
TtlRequests ==
    { [title |-> <<"c">>],
      [title |-> <<"c">>, version |-> 1],
      [userId |-> "short", items |-> << UItem(Id1, T1) >>] }

DayPasses ==
    /\ \E s \in DOMAIN store : store[s] # NoList
    /\ LET left(s) == expiresIn[s] - SecondsPerDay
           expired(s) == store[s] # NoList /\ left(s) <= 0
           kept(s) == store[s] # NoList /\ left(s) > 0
       IN  /\ store' = [s \in DOMAIN store |-> IF expired(s) THEN NoList ELSE store[s]]
           /\ expiresIn' = [s \in DOMAIN store |-> IF kept(s) THEN left(s) ELSE 0]
           /\ idleDays' = [s \in DOMAIN store |-> IF kept(s) THEN idleDays[s] + 1 ELSE 0]
    /\ UNCHANGED <<env, rateLimitStore, now, pc, req, existing, updated, resp, raced,
                   rlHistVars, pageVars>>

NextTTL ==
    \/ \E p \in EditProcs, body \in EditCreateBodies,
          slug \in {sl \in Slugs : store[sl] = NoList}, sweeps \in NoSweeps :
          onRequestPost(p, body, Anonymous, slug, sweeps)
    \/ \E p \in EditProcs, slug \in Slugs, incoming \in TtlRequests, sweeps \in NoSweeps :
          PutBegin(p, slug, incoming, sweeps)
    \/ \E p \in {q \in EditProcs : pc[q] = "get"} :
          \E uuids \in UuidChoices(req[p].body) : PutGet(p, uuids)
    \/ \E p \in EditProcs : PutPersist(p)
    \/ \E p \in EditProcs, slug \in Slugs, clientVersion \in ClientVersions :
          onRequestGet(p, slug, clientVersion)
    \/ DayPasses

SpecTTL == InitTTL /\ [][NextTTL]_vars

----------------------------------------------------------------------------
(* public/app.js: the editor page of one list, its collaborator and the
   handlers that serve them.  A fetch is handed to a free handler when it
   is sent and resolves when that handler responds; the steps of the page
   run between its awaits. *)

PageSlug == "s1"
PageUser == "userA"
UntitledList == <<"U","n","t","i","t","l","e","d"," ","L","i","s","t">>

MaxPageItems == 1      \* handleAddItem is not run on a list of this many items

\* String(n) of a number that is not negative
RECURSIVE StringOf(_)
StringOf(n) ==
    LET digit(d) == <<"0", "1", "2", "3", "4", "5", "6", "7", "8", "9">>[d + 1]
    IN  IF n < 10 THEN <<digit(n)>> ELSE StringOf(n \div 10) \o <<digit(n % 10)>>

InitPage ==
    /\ env = Env("false")
    /\ rlConfig = [k \in Keys |-> [limit |-> 1, windowMs |-> MinuteMs]]
    /\ InitCommon

\* the idle handlers that no fetch of the page has been handed to
AvailableProcs ==
    {p \in Procs : /\ Ready(p)
                   /\ \A f \in DOMAIN pending :
                         ~(pending[f].state = "sent" /\ pending[f].proc = p)}

Sent(f, kind, p, request) ==
    [pending EXCEPT ![f] = [state |-> "sent", kind |-> kind, proc |-> p,
                            request |-> request]]

\* lines 350-424: the table is rebuilt from currentList and the flag is reset
renderList == isDirty' = FALSE

\* lines 328-331: the page is opened
loadList ==
    /\ currentList = NoList
    /\ pending["get"] = NoFetch
    /\ \E p \in AvailableProcs : pending' = Sent("get", "load", p, <<>>)
    /\ UNCHANGED pageState
    /\ UNCHANGED serverVars

\* lines 332-342
loadListReturn ==
    /\ pending["get"].state = "done" /\ pending["get"].kind = "load"
    /\ LET response == pending["get"].resp
       IN  IF response.status # 200
           THEN UNCHANGED <<currentList, isDirty>>
           ELSE currentList' = response.body /\ renderList
    /\ pending' = [pending EXCEPT !["get"] = NoFetch]
    /\ UNCHANGED conflictServerList
    /\ UNCHANGED serverVars

\* lines 283-298: the timer fires and the page has nothing unsaved
pollStart ==
    /\ ~isDirty
    /\ pending["get"] = NoFetch
    /\ \E p \in AvailableProcs :
          pending' = Sent("get", "poll", p,
                          StringOf(IF currentList = NoList THEN 0 ELSE currentList.version))
    /\ UNCHANGED pageState
    /\ UNCHANGED serverVars

\* lines 300-313
pollReturn ==
    /\ pending["get"].state = "done" /\ pending["get"].kind = "poll"
    /\ LET response == pending["get"].resp
       IN  IF response.status = 200
           THEN LET latest == response.body
                IN  IF currentList = NoList \/ latest.version > currentList.version
                    THEN currentList' = latest /\ renderList
                    ELSE UNCHANGED <<currentList, isDirty>>
           ELSE UNCHANGED <<currentList, isDirty>>
    /\ pending' = [pending EXCEPT !["get"] = NoFetch]
    /\ UNCHANGED conflictServerList
    /\ UNCHANGED serverVars

\* lines 503-516
handleAddItem(uuid) ==
    /\ currentList # NoList
    /\ Len(currentList.items) < MaxPageItems
    /\ LET newItem == [id |-> uuid, label |-> <<>>, scores |-> <<>>]
       IN  currentList' = [currentList EXCEPT !.items = Append(@, newItem)]
    /\ isDirty' = TRUE
    /\ UNCHANGED <<conflictServerList, pending>>
    /\ UNCHANGED serverVars

\* crypto.randomUUID(): an identifier that no item of the list has
FreshIds(list) == {Id1, Id2} \ {list.items[i].id : i \in 1..Len(list.items)}

\* lines 594-605: JSON.stringify leaves the undefined properties out
ItemToSend(item, uid) ==
    LET base == [id |-> item.id, label |-> item.label]
        scored == IF Has(item, "scores") /\ uid \in DOMAIN item.scores
                  THEN LET userScore == item.scores[uid]
                       IN  SetField(SetField(SetField(base, "g", userScore.g),
                                             "u", userScore.u), "t", userScore.t)
                  ELSE base
        noted == IF Has(item, "notes") THEN SetField(scored, "notes", item.notes) ELSE scored
    IN  IF Has(item, "url") THEN SetField(noted, "url", item.url) ELSE noted

\* lines 613-619: the body of the save
SaveBody(list) ==
    [ title |-> Trim(IF list.title # <<>> THEN list.title ELSE UntitledList),
      items |-> [i \in 1..Len(list.items) |-> ItemToSend(list.items[i], PageUser)],
      scale |-> list.scale,
      version |-> list.version,
      userId |-> PageUser ]

\* lines 582-620
handleSave ==
    /\ currentList # NoList
    /\ pending["save"] = NoFetch
    /\ \E p \in AvailableProcs : pending' = Sent("save", "save", p, SaveBody(currentList))
    /\ UNCHANGED pageState
    /\ UNCHANGED serverVars

\* lines 708-709
showConflictModal(serverList) == conflictServerList' = serverList

\* lines 622-660
handleSaveReturn ==
    /\ pending["save"].state = "done"
    /\ LET response == pending["save"].resp
       IN  IF response.status = 409
           THEN /\ showConflictModal(response.server)
                /\ UNCHANGED <<currentList, isDirty>>
           ELSE IF response.status # 200
           THEN UNCHANGED pageState
           ELSE /\ currentList' = response.body
                /\ renderList
                /\ UNCHANGED conflictServerList
    /\ pending' = [pending EXCEPT !["save"] = NoFetch]
    /\ UNCHANGED serverVars

\* lines 746-749: the Cancel button
hideConflictModal ==
    /\ conflictServerList # NoList
    /\ conflictServerList' = NoList
    /\ UNCHANGED <<currentList, isDirty, pending>>
    /\ UNCHANGED serverVars

\* lines 751-758: the Take Server button of the conflict dialog
handleTakeServer ==
    /\ conflictServerList # NoList
    /\ currentList' = conflictServerList
    /\ renderList
    /\ conflictServerList' = NoList
    /\ UNCHANGED pending
    /\ UNCHANGED serverVars

\* lines 760-766: the Retry button of the conflict dialog; hideConflictModal
\* runs first, and the test that follows reads what it left
handleRetry ==
    /\ conflictServerList # NoList
    /\ LET hidden == NoList
       IN  /\ conflictServerList' = hidden
           /\ IF hidden # NoList
              THEN LET retried == [currentList EXCEPT !.version = hidden.version]
                   IN  /\ currentList' = retried
                       /\ \E p \in AvailableProcs :
                             pending' = Sent("save", "save", p, SaveBody(retried))
              ELSE UNCHANGED <<currentList, pending>>
    /\ UNCHANGED isDirty
    /\ UNCHANGED serverVars

\* the edit of the collaborator: a new title
CollaboratorRequests == { [title |-> <<"c">>] }
PageCreateBodies == { [title |-> <<"t">>] }

NextPage ==
    \/ \E p \in AvailableProcs, body \in PageCreateBodies, sweeps \in NoSweeps :
          /\ store[PageSlug] = NoList
          /\ onRequestPost(p, body, Anonymous, PageSlug, sweeps)
    \/ \E p \in AvailableProcs, incoming \in CollaboratorRequests, sweeps \in NoSweeps :
          PutBegin(p, PageSlug, incoming, sweeps)
    \/ \E sweeps \in NoSweeps :
          /\ pending["save"].state = "sent"
          /\ PutBegin(pending["save"].proc, PageSlug, pending["save"].request, sweeps)
    \/ \E p \in {q \in Procs : pc[q] = "get"} :
          \E uuids \in UuidChoices(req[p].body) : PutGet(p, uuids)
    \/ \E p \in Procs : PutPersist(p)
    \/ /\ pending["get"].state = "sent"
       /\ onRequestGet(pending["get"].proc, PageSlug, pending["get"].request)
    \/ loadList
    \/ loadListReturn
    \/ pollStart
    \/ pollReturn
    \/ \E uuid \in (IF currentList = NoList THEN {} ELSE FreshIds(currentList)) :
          handleAddItem(uuid)
    \/ handleSave
    \/ handleSaveReturn
    \/ hideConflictModal
    \/ handleTakeServer
    \/ handleRetry

SpecPage == InitPage /\ [][NextPage]_vars

----------------------------------------------------------------------------
(* Properties *)

\* the handler p completes its write in this step
Persists(p) == pc[p] = "put" /\ pc'[p] = "idle"

\* the handler p leaves the read step in this step
LeavesGet(p) == pc[p] = "get" /\ pc'[p] # "get"

IsUserUpdate(p) == Has(req[p].body, "userId") /\ Has(req[p].body, "items")

Indices(items) == 1..Len(items)

StoredIds(list) == {list.items[i].id : i \in Indices(list.items)}

\* every score entry of e of a user other than userId is in n, unchanged,
\* and n has no entry of another user that e has not
OthersUntouched(e, n, userId) ==
    /\ DOMAIN n.scores \ {userId} = DOMAIN e.scores \ {userId}
    /\ \A w \in DOMAIN e.scores \ {userId} : n.scores[w] = e.scores[w]

\* C1: create stores a list with version 1 and no items; a successful update
\* (200) stores and returns a list whose version is the version it read from
\* storage plus 1.
C1_VersionPlusOne ==
    [][ /\ resp'.status = 201 =>
             /\ store'[resp'.slug] # NoList
             /\ store'[resp'.slug].version = 1
             /\ store'[resp'.slug].items = <<>>
        /\ \A p \in Procs : Persists(p) =>
             /\ resp'.status = 200
             /\ resp'.body = store'[req[p].slug]
             /\ resp'.body.version = existing[p].version + 1
             /\ resp'.body.version > existing[p].version ]_vars

C1_Witness ==
    /\ resp.status = 200
    /\ resp.body.version = 3
    /\ store["s1"] = resp.body

C3_AtMostOneWinner ==
    [][ \A p \in Procs : Persists(p) => raced[p] = {} ]_vars

\* C4: when two versioned updates of different users on one list both
\* succeed, the stored list holds score entries of both users once both have
\* completed.
C4_NoBlindOverwrite ==
    [][ \A p \in Procs :
          (Persists(p) /\ IsUserUpdate(p)) =>
             \A w \in raced[p] \ {req[p].body.userId, Anonymous} :
                \E i \in Indices(store'[req[p].slug].items) :
                   w \in DOMAIN store'[req[p].slug].items[i].scores ]_vars

\* C5: the stored version of an existing list never decreases when an update
\* writes it.
C5_VersionMonotonic ==
    [][ \A p \in Procs :
          (Persists(p) /\ store[req[p].slug] # NoList) =>
             store'[req[p].slug].version >= store[req[p].slug].version ]_vars

\* C6: a user-scoped update leaves the score entries of every other user as
\* they were in the list it read, on every item that remains; only the acting
\* user's entry is added or overwritten.
C6_OtherUsersUntouched ==
    \A p \in Procs :
       (pc[p] = "put" /\ IsUserUpdate(p)) =>
          \A i \in Indices(updated[p].items) :
             LET n == updated[p].items[i]
                 same == {j \in Indices(existing[p].items) : existing[p].items[j].id = n.id}
             IN  same # {} =>
                    \E j \in same :
                       OthersUntouched(existing[p].items[j], n, req[p].body.userId)

C6_Witness ==
    \E p \in Procs :
       /\ pc[p] = "put"
       /\ IsUserUpdate(p)
       /\ req[p].body.userId = "userB"
       /\ Len(existing[p].items) = Len(req[p].body.items)
       /\ \E i \in Indices(updated[p].items) :
             /\ existing[p].items[i].id = updated[p].items[i].id
             /\ DOMAIN existing[p].items[i].scores = {"userA"}
             /\ DOMAIN updated[p].items[i].scores = {"userA", "userB"}

\* C7: in a user-scoped update whose item count differs from the stored
\* count, the result is the incoming items in incoming order; an item whose id
\* is stored keeps the stored score entries and takes the acting user's new
\* values; a stored item whose id is not incoming is dropped.
C7_StructuralReconciliation ==
    \A p \in Procs :
       ( /\ pc[p] = "put"
         /\ IsUserUpdate(p)
         /\ Len(req[p].body.items) # Len(existing[p].items) ) =>
          LET inc == req[p].body.items
              userId == req[p].body.userId
          IN  /\ Len(updated[p].items) = Len(inc)
              /\ \A i \in Indices(inc) :
                    LET n == updated[p].items[i]
                        same == {j \in Indices(existing[p].items) :
                                    existing[p].items[j].id = inc[i].id}
                    IN  /\ n.id = inc[i].id
                        /\ same # {} =>
                              \E j \in same :
                                 /\ OthersUntouched(existing[p].items[j], n, userId)
                                 /\ DOMAIN existing[p].items[j].scores \subseteq DOMAIN n.scores
                        /\ (Has(inc[i], "g") /\ Has(inc[i], "u") /\ Has(inc[i], "t")) =>
                              /\ userId \in DOMAIN n.scores
                              /\ n.scores[userId].g =
                                    clamp(NumOr(inc[i].g, updated[p].scale.min),
                                          updated[p].scale.min, updated[p].scale.max)
                              /\ n.scores[userId].u =
                                    clamp(NumOr(inc[i].u, updated[p].scale.min),
                                          updated[p].scale.min, updated[p].scale.max)
                              /\ n.scores[userId].t =
                                    clamp(NumOr(inc[i].t, updated[p].scale.min),
                                          updated[p].scale.min, updated[p].scale.max)
              /\ \A id \in StoredIds(existing[p]) :
                    (\A i \in Indices(inc) : inc[i].id # id) => id \notin StoredIds(updated[p])

C7_Witness ==
    \E p \in Procs :
       /\ pc[p] = "put"
       /\ IsUserUpdate(p)
       /\ Len(existing[p].items) = 2
       /\ Len(req[p].body.items) = 1
       /\ Len(updated[p].items) = 1
       /\ \E j \in Indices(existing[p].items) :
             /\ existing[p].items[j].id = updated[p].items[1].id
             /\ DOMAIN existing[p].items[j].scores = {"userB"}
       /\ DOMAIN updated[p].items[1].scores = {"userA", "userB"}

\* the last direct call of checkRateLimit was rejected
LastRejected == rlLast # NoCall /\ ~rlLast.res.allowed

\* C8: within one window the first L calls on a key are allowed and report
\* current = 1..L; every further call in the window is rejected, reports
\* current = L and leaves the counter as it is; the counter never exceeds L.
C8_FirstLimitCallsAllowed ==
    /\ \A k \in Keys :
          rateLimitStore[k] # NoEntry =>
             rateLimitStore[k].count \in 1..rlConfig[k].limit
    /\ rlLast # NoCall =>
          LET k == rlLast.key
              L == rlConfig[k].limit
              n == rlHist[k].calls
          IN  /\ n <= L => (rlLast.res.allowed /\ rlLast.res.current = n)
              /\ n > L => (~rlLast.res.allowed /\ rlLast.res.current = L)
              /\ rateLimitStore[k].count = Min(n, L)

C8_Witness ==
    /\ LastRejected
    /\ rlConfig[rlLast.key].limit = 2
    /\ rlHist[rlLast.key].calls = 4
    /\ rlLast.res.current = 2

\* C9: a rejected call reports a retry time that is a positive number of
\* seconds, at most ceil(windowMs / 1000): the ceiling of the milliseconds
\* that remain until resetAt.
C9_RetryAfterPositive ==
    LastRejected =>
       /\ rlLast.res.retryAfter >= 1
       /\ rlLast.res.retryAfter <= CeilDiv(rlConfig[rlLast.key].windowMs, 1000)
       /\ rlLast.res.retryAfter = CeilDiv(rlHist[rlLast.key].windowEnd - rlLast.at, 1000)

\* C10: the first call on a key after its window has expired is allowed,
\* reports current = 1 and starts a new window of windowMs from that call,
\* whatever number of calls the previous window saw.
C10_ResetAfterExpiry ==
    (rlLast # NoCall /\ rlLast.expired) =>
       /\ rlLast.res.allowed
       /\ rlLast.res.current = 1
       /\ rateLimitStore[rlLast.key] =
             [count |-> 1, resetAt |-> rlLast.at + rlConfig[rlLast.key].windowMs]

C10_Witness ==
    /\ rlLast # NoCall
    /\ rlLast.expired
    /\ rlLast.prevCalls > rlConfig[rlLast.key].limit
    /\ rlLast.res.allowed
    /\ rateLimitStore[rlLast.key].resetAt = now + rlConfig[rlLast.key].windowMs

\* the window of key lets one more call through at time t
WindowAllows(rl, key, limit, t) ==
    rl[key] = NoEntry \/ t > rl[key].resetAt \/ rl[key].count < limit

\* seconds until the window of key is over, rounded up
SecondsLeft(rl, key, t) == CeilDiv(rl[key].resetAt - t, 1000)

IsUserCall == Has(rlLast, "fn") /\ rlLast.fn = "checkUserRateLimits"
IsListCall == Has(rlLast, "fn") /\ rlLast.fn = "checkListRateLimits"

MinuteKey(userId) == <<"user", userId, "save", "minute">>
HourKey(userId) == <<"user", userId, "save", "hour">>
DayKey(userId) == <<"user", userId, "create", "day">>

MinuteAllows == WindowAllows(rlLast.pre, MinuteKey(rlLast.userId),
                             Env("true").MAX_SAVES_PER_USER_PER_MINUTE, rlLast.at)
HourAllows == WindowAllows(rlLast.pre, HourKey(rlLast.userId),
                           Env("true").MAX_SAVES_PER_USER_PER_HOUR, rlLast.at)
DayAllows == WindowAllows(rlLast.pre, DayKey(rlLast.userId),
                          Env("true").MAX_LISTS_PER_USER_PER_DAY, rlLast.at)

\* the rejection carries the message and the retry time of the window of key
RejectedBy(key, message) ==
    /\ ~rlLast.res.allowed
    /\ rlLast.res.error = message
    /\ rlLast.res.retryAfter = SecondsLeft(rlLast.pre, key, rlLast.at)

\* C11: with rate limiting enabled, checkUserRateLimits allows a save exactly
\* when the per-minute and the per-hour window of the user both let it
\* through; a rejected save carries the message and retry time of the
\* per-minute window when that one fails, of the per-hour window otherwise.
\* A create is allowed exactly when the per-day window lets it through.
C11_UserWindows ==
    IsUserCall /\ rlLast.enabled = "true" =>
        IF rlLast.action = "save"
        THEN /\ rlLast.res.allowed <=> (MinuteAllows /\ HourAllows)
             /\ ~MinuteAllows =>
                    RejectedBy(MinuteKey(rlLast.userId), "Too many saves per minute")
             /\ MinuteAllows /\ ~HourAllows =>
                    RejectedBy(HourKey(rlLast.userId), "Too many saves per hour")
        ELSE /\ rlLast.res.allowed <=> DayAllows
             /\ ~DayAllows =>
                    RejectedBy(DayKey(rlLast.userId), "Too many lists created today")

\* a save is rejected while both windows of the user are full
C11_Witness ==
    /\ IsUserCall /\ rlLast.enabled = "true" /\ rlLast.action = "save"
    /\ ~MinuteAllows /\ ~HourAllows
    /\ ~rlLast.res.allowed

\* C13: a call of checkUserRateLimits or checkListRateLimits with an env
\* whose ENABLE_RATE_LIMITING is not 'true' is allowed whatever the counters
\* hold, and leaves every counter as it was.
C13_DisabledAllowsAll ==
    [][ /\ \A userId \in Users, action \in Actions, sweeps \in Sweeps :
              CallCheckUserRateLimits(userId, action, "false", sweeps) =>
                  /\ rlLast'.res.allowed
                  /\ rateLimitStore' = rateLimitStore
        /\ \A slug \in GovSlugs, sweep \in BOOLEAN :
              CallCheckListRateLimits(slug, "false", sweep) =>
                  /\ rlLast'.res.allowed
                  /\ rateLimitStore' = rateLimitStore ]_vars

\* a save is allowed with the flag off although the per-minute window of the
\* user is full
C13_Witness ==
    /\ IsUserCall /\ rlLast.enabled = "false" /\ rlLast.action = "save"
    /\ ~MinuteAllows
    /\ rlLast.res.allowed

\* what the limiter holds for key k at time t: an entry whose window is over
\* counts as no entry (checkRateLimit treats both alike)
EffectiveEntry(rl, k, t) ==
    IF rl[k] = NoEntry THEN NoEntry
    ELSE IF t > rl[k].resetAt THEN NoEntry ELSE rl[k]

\* what a call on key k at time t would return
OutcomeOf(rl, k, t) ==
    checkRateLimit(rl, k, rlConfig[k].limit, rlConfig[k].windowMs, t, FALSE).res

\* C14: a call of checkRateLimit on one key leaves the counter and the window
\* of every other key as they were (an entry whose window is over counts as
\* absent), and the outcome of a call on any other key, now or later, is what
\* it would have been without the call.
C14_OtherKeysUntouched ==
    [][ \A key \in TestKeys, sweep \in BOOLEAN :
            CallCheckRateLimit(key, sweep) =>
                \A k \in Keys \ {key} :
                    /\ EffectiveEntry(rateLimitStore', k, now)
                           = EffectiveEntry(rateLimitStore, k, now)
                    /\ \A t \in {now} \cup {now + d : d \in TickSizes} :
                           OutcomeOf(rateLimitStore', k, t)
                               = OutcomeOf(rateLimitStore, k, t) ]_vars

\* a call on one key has just swept the entry of another key, whose window
\* was over
C14_Witness ==
    \E k \in TestKeys :
        /\ rlLast # NoCall /\ rlLast.key # k /\ rlLast.at = now
        /\ rlHist[k].calls > 0 /\ now > rlHist[k].windowEnd
        /\ rateLimitStore[k] = NoEntry

IsSizeCall == Has(rlLast, "fn") /\ rlLast.fn = "checkListSize"

\* C16: checkListSize allows a document exactly when its UTF-8 byte length is
\* at most LIST_MAX_SIZE_KB * 1024, so a document of exactly that length is
\* allowed and one of one byte more is rejected; the error of a rejection
\* shows the measured size, rounded to a tenth of a KB, and the allowed size.
C16_SizeBoundary ==
    IsSizeCall =>
        LET bytes == rlLast.doc.ascii + 4 * rlLast.doc.emoji
            ceiling == env.LIST_MAX_SIZE_KB * 1024
        IN  /\ rlLast.res.allowed <=> bytes <= ceiling
            /\ bytes = ceiling => rlLast.res.allowed
            /\ bytes = ceiling + 1 => ~rlLast.res.allowed
            /\ ~rlLast.res.allowed =>
                   /\ rlLast.res.error.maxSizeKB = env.LIST_MAX_SIZE_KB
                   /\ 1024 * rlLast.res.error.sizeKB - 10 * bytes <= 512
                   /\ 10 * bytes - 1024 * rlLast.res.error.sizeKB < 512

\* a document of emoji and ASCII text one byte over the ceiling is rejected
C16_Witness ==
    /\ IsSizeCall
    /\ rlLast.doc.emoji > 0
    /\ Utf8Length(rlLast.doc) = env.LIST_MAX_SIZE_KB * BytesPerKB + 1
    /\ ~rlLast.res.allowed

ListKey(slug) == <<"list", slug, "save", "minute">>
ListMessage == "This list is being updated too frequently"

\* the history h has seen limit calls or more in a window that is still open
WindowFull(h, limit) == h.calls >= limit /\ now <= h.windowEnd

\* the request body carries no user identifier, or a well-formed one
SenderAdmitted(incoming) ==
    IF Has(incoming, "userId") THEN validateUserId(incoming.userId) ELSE TRUE

\* C12 (as stated): once MAX_SAVES_PER_LIST_PER_MINUTE update requests have
\* been addressed to a list within a minute, every further update request to
\* it in that minute is answered 429, whoever sends it.
C12_EveryRequestCounts ==
    [][ \A p \in GovProcs, target \in GovTargets, sweeps \in GovSweeps :
            ( /\ PutBegin(p, target[1], target[2], sweeps)
              /\ WindowFull(rlHist[RequestKey(target[1])],
                            env.MAX_SAVES_PER_LIST_PER_MINUTE) )
            => resp'.status = 429 ]_vars

\* C12 (amended): the update requests to a list that pass identity validation
\* and the sender's own windows all count against one per-minute window of
\* the list. Once MAX_SAVES_PER_LIST_PER_MINUTE of them have arrived within
\* the window, every further update request to the list from a sender with a
\* well-formed or no user identifier is answered 429; before that, no request
\* is rejected by the list's window. A request to one list leaves the window
\* of every other list as it was.
C12_ListWindow ==
    [][ \A p \in GovProcs, target \in GovTargets, sweeps \in GovSweeps :
            PutBegin(p, target[1], target[2], sweeps) =>
                LET full == WindowFull(rlHist[ListKey(target[1])],
                                       env.MAX_SAVES_PER_LIST_PER_MINUTE)
                IN  /\ full /\ SenderAdmitted(target[2]) => resp'.status = 429
                    /\ ~full => ~(resp'.status = 429 /\ resp'.error = ListMessage)
                    /\ \A other \in GovSlugs \ {target[1]} :
                           EffectiveEntry(rateLimitStore', ListKey(other), now)
                               = EffectiveEntry(rateLimitStore, ListKey(other), now) ]_vars

\* a request is rejected by the window of its list, which saves of userA and
\* others filled, while the other list has a window of its own
C12_Witness ==
    /\ resp.status = 429 /\ resp.error = ListMessage
    /\ rateLimitStore[MinuteKey("userA")] # NoEntry
    /\ rateLimitStore[ListKey("s2")] # NoEntry

\* the statuses of InvalidIdentity and InvalidRequest (400), NotFound (404),
\* TooLarge (413) and RateLimited (429)
Rejections == {400, 404, 413, 429}

\* the handlers that have issued MATRIX_STORE.get and wait for its result
Reading == {q \in GovProcs : pc[q] = "get"}

\* C15: an update whose merged result is larger than the size ceiling is
\* answered 413, and a step that ends a request with 400, 404, 413 or 429
\* leaves every stored list, version included, exactly as it was.
C15_RejectedNoWrite ==
    [][ /\ resp'.status \in Rejections => store' = store
        /\ \A p \in Reading : \A uuids \in UuidChoices(req[p].body) :
               ( /\ PutGet(p, uuids)
                 /\ store[req[p].slug] # NoList
                 /\ ~IsConflict(req[p].body, store[req[p].slug])
                 /\ ListBytes(UpdatedList(store[req[p].slug], req[p].body, env, uuids))
                        > env.LIST_MAX_SIZE_KB * 1024 )
               => resp'.status = 413 /\ store' = store ]_vars

\* an update of an existing list has been answered 413
C15_Witness ==
    /\ resp.status = 413
    /\ store["s1"] # NoList
    /\ ListBytes(store["s1"]) <= env.LIST_MAX_SIZE_KB * 1024

\* C17: an update request addressed to a list that is not stored is not
\* answered 400 or 429 and increments no rate-limit counter: it fails with
\* NotFound before identity validation, governance and shape validation.
C17_NotFoundFirst ==
    [][ \A p \in GovProcs, target \in GovTargets, sweeps \in GovSweeps :
            ( /\ PutBegin(p, target[1], target[2], sweeps)
              /\ store[target[1]] = NoList )
            => /\ resp'.status \notin {400, 429}
               /\ rateLimitStore' = rateLimitStore ]_vars

\* the canonical form: groups of 8, 4, 4, 4 and 12 hexadecimal digits
Canonical(userId) ==
    /\ UserIdShape(userId).groups = <<8, 4, 4, 4, 12>>
    /\ UserIdShape(userId).hex

InvalidIdentity(r) == r.status = 400 /\ r.error = "Invalid user ID format"

\* C18: an update request is answered 400 "Invalid user ID format" exactly
\* when it carries a userId that is not of the canonical 8-4-4-4-12
\* hexadecimal form; that answer comes before any rate-limit counter is
\* touched and without a write to the store. A request without userId is
\* never answered so.
C18_InvalidIdentityFirst ==
    [][ \A p \in GovProcs, target \in GovTargets, sweeps \in GovSweeps :
            PutBegin(p, target[1], target[2], sweeps) =>
                IF Has(target[2], "userId") /\ ~Canonical(target[2].userId)
                THEN /\ InvalidIdentity(resp')
                     /\ pc'[p] = "idle"
                     /\ rateLimitStore' = rateLimitStore
                     /\ store' = store
                ELSE ~InvalidIdentity(resp') ]_vars

\* a request has been answered InvalidIdentity while the window of its
\* list holds a count
C18_Witness ==
    /\ InvalidIdentity(resp)
    /\ \E slug \in GovSlugs : rateLimitStore[ListKey(slug)] # NoEntry

TooManyItems(r) == r.status = 400 /\ r.error = "Too many items"

\* C19: an update request whose items array is longer than MAX_ITEMS is
\* rejected (with "Too many items" when its user identifier is well-formed or
\* absent) and goes no further; one with exactly MAX_ITEMS items is not
\* rejected for its length; and no list in the store ever has more than
\* MAX_ITEMS items.
C19_ItemCountBounded ==
    [][ /\ \A p \in Procs, slug \in Slugs, incoming \in Requests :
               PutBegin(p, slug, incoming, CHOOSE sw \in NoSweeps : TRUE) =>
                   LET n == IF Has(incoming, "items") THEN Len(incoming.items) ELSE 0
                   IN  /\ n > env.MAX_ITEMS =>
                              /\ resp'.status = 400 /\ pc'[p] = "idle"
                              /\ SenderAdmitted(incoming) => TooManyItems(resp')
                       /\ n <= env.MAX_ITEMS => ~TooManyItems(resp')
        /\ \A slug \in Slugs :
               store'[slug] # NoList => Len(store'[slug].items) <= env.MAX_ITEMS ]_vars

\* an update with exactly MAX_ITEMS items has been accepted and stored
C19_Witness ==
    /\ resp.status = 200
    /\ Len(resp.body.items) = env.MAX_ITEMS
    /\ \E slug \in Slugs : store[slug] = resp.body

\* C20: an update request without version is never answered 409: when the
\* list is stored the request is merged into it, and what is written and
\* returned has the version of the list that was read plus 1.
C20_NoVersionNoConflict ==
    [][ \A p \in Procs :
            /\ ( /\ LeavesGet(p)
                 /\ ~Has(req[p].body, "version") )
               => /\ resp'.status # 409
                  /\ store[req[p].slug] # NoList /\ resp'.status # 413 =>
                         /\ pc'[p] = "put"
                         /\ updated'[p].version = store[req[p].slug].version + 1
            /\ ( /\ Persists(p)
                 /\ ~Has(req[p].body, "version") )
               => /\ resp'.status = 200
                  /\ store'[req[p].slug].version = existing[p].version + 1 ]_vars

\* an update without version is about to be written over a list that has
\* been updated before
C20_Witness ==
    \E p \in Procs :
        /\ pc[p] = "put"
        /\ ~Has(req[p].body, "version")
        /\ existing[p].version > 1

IsScoreCall == Has(rlLast, "fn") /\ rlLast.fn = "normalizeUserScore"
IsAverageCall == Has(rlLast, "fn") /\ rlLast.fn = "calculateAverageScore"

\* the raw factor f of the last call brought into the scale of the call: an
\* absent factor counts as the lower end
Clamped(f) ==
    LET raw == IF Has(rlLast.score, f) THEN rlLast.score[f] ELSE rlLast.scale.min
    IN  IF raw < rlLast.scale.min THEN rlLast.scale.min
        ELSE IF raw > rlLast.scale.max THEN rlLast.scale.max
        ELSE raw

\* C27: normalizeUserScore returns g, u and t each clamped into
\* [scale.min, scale.max], an absent factor as scale.min, and as score the
\* product of the three clamped factors, whatever score was supplied.
C27_ScoreNormalized ==
    IsScoreCall =>
        /\ rlLast.res.g = Clamped("g")
        /\ rlLast.res.u = Clamped("u")
        /\ rlLast.res.t = Clamped("t")
        /\ \A f \in {"g", "u", "t"} :
               rlLast.scale.min <= rlLast.res[f] /\ rlLast.res[f] <= rlLast.scale.max
        /\ rlLast.res.score = Clamped("g") * Clamped("u") * Clamped("t")
        /\ DOMAIN rlLast.res = {"g", "u", "t", "score"}

\* scale {1,5} and input {g: 10, u: 0, t: 3, score: 7} give
\* {g: 5, u: 1, t: 3, score: 15}
C27_Witness ==
    /\ IsScoreCall
    /\ rlLast.scale = [min |-> 1, max |-> 5]
    /\ rlLast.score = [g |-> 10, u |-> 0, t |-> 3, score |-> 7]
    /\ rlLast.res = [g |-> 5, u |-> 1, t |-> 3, score |-> 15]

\* the sum of field f over the entries of the last call's map
RECURSIVE TotalOf(_, _)
TotalOf(f, who) ==
    IF who = {} THEN 0
    ELSE LET x == CHOOSE y \in who : TRUE
         IN  rlLast.scores[x][f] + TotalOf(f, who \ {x})

\* tenths is the mean total / count rounded to one decimal: no tenth is
\* nearer to the mean
NearestTenth(tenths, total, count) ==
    /\ 2 * (10 * total - count * tenths) <= count
    /\ 2 * (count * tenths - 10 * total) <= count

\* C28: calculateAverageScore returns nothing for an empty map; otherwise
\* count is the number of entries and g, u, t and score are the means of the
\* entries' fields rounded to one decimal, so that one entry gives its own
\* values with count 1.
C28_AverageRounded ==
    IsAverageCall =>
        LET who == DOMAIN rlLast.scores
            n == Cardinality(who)
        IN  IF n = 0 THEN rlLast.res = {}
            ELSE \E avg \in rlLast.res :
                    /\ rlLast.res = {avg}
                    /\ avg.count = n
                    /\ \A f \in {"g", "u", "t", "score"} :
                           NearestTenth(avg[f], TotalOf(f, who), n)
                    /\ n = 1 => \A x \in who : \A f \in {"g", "u", "t", "score"} :
                                   avg[f] = 10 * rlLast.scores[x][f]

\* three contributors whose mean of g is not a whole number of tenths
C28_Witness ==
    /\ IsAverageCall
    /\ Cardinality(DOMAIN rlLast.scores) = 3
    /\ (10 * TotalOf("g", DOMAIN rlLast.scores)) % 3 = 2
    /\ rlLast.res # {}

\* the items of the list stored under slug
ItemsOf(slug) == IF store[slug] = NoList THEN <<>> ELSE store[slug].items

\* C21: in every stored list every score entry has score = g * u * t,
\* whichever update path wrote it.
C21_StoredScoreIsProduct ==
    \A slug \in Slugs : \A i \in Indices(ItemsOf(slug)) :
        \A w \in DOMAIN ItemsOf(slug)[i].scores :
            LET e == ItemsOf(slug)[i].scores[w]
            IN  e.score = e.g * e.u * e.t

InScale(x, scale) == scale.min <= x /\ x <= scale.max

\* C22: in every stored list the g, u and t of every score entry lie within
\* the scale that the list is stored with, also after the scale was changed.
C22_StoredScoresInScale ==
    \A slug \in Slugs : \A i \in Indices(ItemsOf(slug)) :
        \A w \in DOMAIN ItemsOf(slug)[i].scores :
            LET e == ItemsOf(slug)[i].scores[w]
            IN  /\ InScale(e.g, store[slug].scale)
                /\ InScale(e.u, store[slug].scale)
                /\ InScale(e.t, store[slug].scale)

\* the sum of field f over the entries of a scores map
RECURSIVE FieldTotal(_, _, _)
FieldTotal(scores, who, f) ==
    IF who = {} THEN 0
    ELSE LET x == CHOOSE y \in who : TRUE
         IN  scores[x][f] + FieldTotal(scores, who \ {x}, f)

\* C23: every stored item has avgScore exactly when its scores map is not
\* empty, and then count is the number of entries and g, u, t and score are
\* the means of the entries rounded to one decimal.
C23_AverageMatchesScores ==
    \A slug \in Slugs : \A i \in Indices(ItemsOf(slug)) :
        LET item == ItemsOf(slug)[i]
            who == DOMAIN item.scores
        IN  IF who = {} THEN ~Has(item, "avgScore")
            ELSE /\ Has(item, "avgScore")
                 /\ item.avgScore.count = Cardinality(who)
                 /\ \A f \in {"g", "u", "t", "score"} :
                        NearestTenth(item.avgScore[f], FieldTotal(item.scores, who, f),
                                     Cardinality(who))

\* the write of p is an update with items and without user identifier
IsReplacement(p) ==
    /\ Persists(p)
    /\ Has(req[p].body, "items")
    /\ ~Has(req[p].body, "userId")

\* every score entry of old is an entry of new
KeepsScores(old, new) ==
    \A w \in DOMAIN old.scores : w \in DOMAIN new.scores /\ new.scores[w] = old.scores[w]

\* C24: an update with items and without user identifier stores the incoming
\* items in their order, and for every item id that is both stored and
\* incoming every score entry stored before the update is stored after it.
C24_ReplacementKeepsScores ==
    [][ \A p \in Procs : IsReplacement(p) =>
          LET slug == req[p].slug
              incoming == req[p].body.items
              before == store[slug].items
              after == store'[slug].items
          IN  /\ Len(after) = Len(incoming)
              /\ \A j \in Indices(incoming) :
                     Has(incoming[j], "id") =>
                         /\ after[j].id = incoming[j].id
                         /\ \A i \in Indices(before) :
                                before[i].id = incoming[j].id
                                    => KeepsScores(before[i], after[j]) ]_vars

\* the label is what trimming and cutting to 200 characters leave of it
IsPlainLabel(label) == label # <<>> /\ Trim(Slice(label, 200)) = label

\* C25: a user-scoped update whose item names a stored item (here: the item
\* at its own position), carries a new label or new notes and none of g, u,
\* t stores the label or the notes with that item and leaves its scores map
\* as it was.
C25_LabelEditApplied ==
    [][ \A p \in Procs : (Persists(p) /\ IsUserUpdate(p)) =>
          LET slug == req[p].slug
              incoming == req[p].body.items
              before == store[slug].items
              after == store'[slug].items
          IN  \A i \in Indices(incoming) :
                  ( /\ i \in Indices(before)
                    /\ Has(incoming[i], "id")
                    /\ before[i].id = incoming[i].id
                    /\ ~isUserItemUpdate(incoming[i]) )
                  => /\ i \in Indices(after)
                     /\ after[i].id = before[i].id
                     /\ after[i].scores = before[i].scores
                     /\ (Has(incoming[i], "label") /\ IsPlainLabel(incoming[i].label))
                            => after[i].label = incoming[i].label
                     /\ (Has(incoming[i], "notes") /\ IsPlainLabel(incoming[i].notes))
                            => (Has(after[i], "notes")
                                /\ after[i].notes = incoming[i].notes) ]_vars

\* C26: the scale of every stored list has min < max, 1 <= min <= MIN_SCALE
\* and 2 <= max <= MAX_SCALE of the configuration, also when normalizeScale
\* fell back to {1,5}.
C26_StoredScaleInBounds ==
    \A slug \in Slugs : store[slug] # NoList =>
        LET scale == store[slug].scale
        IN  /\ scale.min < scale.max
            /\ 1 <= scale.min /\ scale.min <= env.MIN_SCALE
            /\ 2 <= scale.max /\ scale.max <= env.MAX_SCALE

\* C29: a delete answers 204 whether or not the list is stored and leaves it
\* absent, so a second delete gives the same; a read of a slug that is not
\* stored answers 404, and an update of it is not rejected for another
\* reason: it reaches the read of the store and answers 404.
C29_DeleteThenNotFound ==
    [][ /\ \A p \in Procs, slug \in Slugs : onRequestDelete(p, slug) =>
               /\ resp'.status = 204
               /\ store'[slug] = NoList
        /\ \A p \in Procs, slug \in Slugs, clientVersion \in ClientVersions :
               (onRequestGet(p, slug, clientVersion) /\ store[slug] = NoList)
                   => resp'.status = 404
        /\ \A p \in Procs, slug \in Slugs, incoming \in EditRequests, sweeps \in NoSweeps :
               (PutBegin(p, slug, incoming, sweeps) /\ store[slug] = NoList)
                   => pc'[p] = "get"
        /\ \A p \in Procs :
               (LeavesGet(p) /\ store[req[p].slug] = NoList) => resp'.status = 404 ]_vars

\* C30: a read leaves every stored list and every rate-limit counter as they
\* were, and answers with the stored document and its version (or 304 when
\* the client already holds that version): a read that follows a response
\* carrying the document returns the same document and version again.
C30_ReadChangesNothing ==
    [][ \A p \in Procs, slug \in Slugs, clientVersion \in ClientVersions :
          onRequestGet(p, slug, clientVersion) =>
              /\ store' = store
              /\ rateLimitStore' = rateLimitStore
              /\ store[slug] = NoList => resp'.status = 404
              /\ store[slug] # NoList =>
                     /\ resp'.status \in {200, 304}
                     /\ resp'.status = 200 =>
                            /\ resp'.body = store'[slug]
                            /\ resp'.body.version = store[slug].version
                     /\ resp'.status = 304 =>
                            parseInt(clientVersion) = {store[slug].version}
                     /\ (resp.status = 200 /\ resp'.status = 200) =>
                            /\ resp'.body = resp.body
                            /\ resp'.body.version = resp.body.version ]_vars

\* a read answered 304 while the list's save counter is running
C30_Witness ==
    /\ resp.status = 304
    /\ store["s1"] # NoList
    /\ store["s1"].version = 2
    /\ rateLimitStore[<<"list", "s1", "save", "minute">>] # NoEntry

\* the incoming item carries g, u and t
HasTriple(item) == Has(item, "g") /\ Has(item, "u") /\ Has(item, "t")

\* the entry of user in the item of items with identifier id: a set, empty
\* when there is no such item or no such entry
EntryOf(items, id, user) ==
    {items[i].scores[user] : i \in {k \in Indices(items) :
                                        items[k].id = id /\ user \in DOMAIN items[k].scores}}

\* C34: in a user-scoped update the triple of the incoming item with
\* identifier X becomes the acting user's entry of the stored item with
\* identifier X, and the acting user's entry of an item for which no triple
\* came in is what it was, whatever the order of the incoming items.
C34_ScoreGoesToItsItem ==
    [][ \A p \in Procs : (Persists(p) /\ IsUserUpdate(p)) =>
          LET slug == req[p].slug
              user == req[p].body.userId
              incoming == req[p].body.items
              before == store[slug].items
              after == store'[slug].items
              scale == store'[slug].scale
          IN  \A k \in Indices(after) :
                  LET sent == {normalizeUserScore(
                                   [g |-> incoming[j].g, u |-> incoming[j].u,
                                    t |-> incoming[j].t], scale) :
                               j \in {i \in Indices(incoming) :
                                         /\ HasTriple(incoming[i])
                                         /\ Has(incoming[i], "id")
                                         /\ incoming[i].id = after[k].id}}
                      new == EntryOf(after, after[k].id, user)
                  IN  IF sent # {} THEN new # {} /\ new \subseteq sent
                      ELSE new = EntryOf(before, after[k].id, user) ]_vars

\* C35: in every stored list every item has a label of 1 to 200 characters
\* and notes of at most 1024 characters, whichever path wrote it.
C35_StoredTextBounded ==
    \A slug \in Slugs : \A i \in Indices(ItemsOf(slug)) :
        LET item == ItemsOf(slug)[i]
        IN  /\ item.label # <<>>
            /\ Len(item.label) <= 200
            /\ Has(item, "notes") => Len(item.notes) <= 1024

\* C36: an item that a user-scoped structural update adds (its identifier is
\* not stored before) is stored with no score entry of anyone but the acting
\* user, and the acting user's entry is the normalized score that came in.
C36_AddedItemIsFresh ==
    [][ \A p \in Procs :
          (Persists(p) /\ IsUserUpdate(p)
              /\ Len(req[p].body.items) # Len(store[req[p].slug].items)) =>
          LET slug == req[p].slug
              user == req[p].body.userId
              incoming == req[p].body.items
              after == store'[slug].items
          IN  \A k \in Indices(after) :
                  after[k].id \notin StoredIds(store[slug]) =>
                      /\ DOMAIN after[k].scores \subseteq {user}
                      /\ \A w \in DOMAIN after[k].scores :
                             /\ k \in Indices(incoming)
                             /\ HasTriple(incoming[k])
                             /\ after[k].scores[w] =
                                    normalizeUserScore(
                                        [g |-> incoming[k].g, u |-> incoming[k].u,
                                         t |-> incoming[k].t], store'[slug].scale) ]_vars

\* C39: a list that is absent (deleted) becomes stored again only by a
\* create: no update that read it before the delete writes it back.
C39_DeletedStaysAbsent ==
    [][ \A slug \in Slugs :
          (store[slug] = NoList /\ store'[slug] # NoList)
              => /\ resp'.status = 201
                 /\ resp'.slug = slug
                 /\ \A p \in Procs : ~Persists(p) ]_vars

\* the times at which the runs call checkRateLimit
CallTimes == {t \in 0..MaxTime : \E d \in TickSizes : t % d = 0}

\* the entries whose window was over before time t
StaleEntries(t) ==
    [count : 1..MaxLimit,
     resetAt : {r \in {a + w : a \in CallTimes, w \in Windows} : r < t}]

\* m is rl except that it may hold an entry whose window is over where rl
\* has none: what rl would be had sweeps been skipped
SweptFrom(m, rl, t) ==
    \A k \in DOMAIN rl :
        \/ m[k] = rl[k]
        \/ rl[k] = NoEntry /\ m[k] # NoEntry /\ m[k].resetAt < t

\* the maps that rl may have been swept from
Unswept(rl, t) ==
    {[k \in DOMAIN rl |-> IF k \in TestKeys THEN f[k] ELSE rl[k]] :
        f \in {g \in [TestKeys -> {NoEntry} \cup StaleEntries(t)
                                    \cup {rl[k] : k \in TestKeys}] :
                  \A k \in TestKeys :
                      \/ g[k] = rl[k]
                      \/ rl[k] = NoEntry /\ g[k] # NoEntry /\ g[k].resetAt < t}}

\* C37: the sweep is unobservable. Whatever sweeps ran or were skipped
\* before, a call returns what the same call returns on the map that no
\* sweep has touched and without sweeping, and the two maps after the call
\* still differ only by entries whose window is over.
C37_SweepUnobservable ==
    [][ \A key \in TestKeys, sweep \in BOOLEAN :
            CallCheckRateLimit(key, sweep) =>
                \A m \in Unswept(rateLimitStore, now) :
                    LET r == checkRateLimit(m, key, rlConfig[key].limit,
                                            rlConfig[key].windowMs, now, FALSE)
                    IN  /\ r.res = rlLast'.res
                        /\ SweptFrom(r.rl, rateLimitStore', now) ]_vars

\* a call is rejected while the entry of the other key, which was called
\* before, has been swept
C37_Witness ==
    /\ Has(rlLast, "res") /\ ~rlLast.res.allowed
    /\ \E k \in TestKeys \ {rlLast.key} :
           rateLimitStore[k] = NoEntry /\ rlHist[k].calls > 0

\* C38: an update that is answered 429 leaves every rate-limit counter as it
\* was (an entry whose window is over counts as absent): the windows that
\* were checked before the rejecting one have consumed nothing.
C38_RejectedConsumesNothing ==
    [][ \A p \in Procs, slug \in GovSlugs, incoming \in GovRequests, sweeps \in GovSweeps :
          (PutBegin(p, slug, incoming, sweeps) /\ resp'.status = 429) =>
              \A k \in Keys :
                  EffectiveEntry(rateLimitStore', k, now)
                      = EffectiveEntry(rateLimitStore, k, now) ]_vars

IsCompareCall == Has(rlLast, "fn") /\ rlLast.fn = "compareListVersions"

\* the entries of a scores object, whatever their order
EntrySet(scores) == {scores[i] : i \in 1..Len(scores)}

\* two items of the page have the same properties with the same values
DeepEqual(a, b) ==
    /\ a.id = b.id
    /\ a.label = b.label
    /\ EntrySet(a.scores) = EntrySet(b.scores)

PageIds(list) == {list.items[i].id : i \in 1..Len(list.items)}

\* the number of records of res that are of the type and about the id
RecordsOf(res, type, id) ==
    Cardinality({i \in 1..Len(res) : res[i].type = type /\ res[i].id = id})

\* C32: compareListVersions returns a title record exactly when the titles
\* differ, one 'modified' record for each id in both snapshots whose items
\* are not deep-equal (and none for one whose items are), one 'added' record
\* for each id only in server, one 'deleted' record for each id only in
\* local, and no other record.
C32_ChangeRecords ==
    IsCompareCall =>
        LET res == rlLast.res
            local == rlLast.local
            server == rlLast.server
            titles == {i \in 1..Len(res) : res[i].type = "title"}
        IN  /\ Cardinality(titles) = IF local.title # server.title THEN 1 ELSE 0
            /\ \A i \in 1..Len(res) : res[i].type \in {"title", "modified", "added", "deleted"}
            /\ \A id \in PageIds(local) \cup PageIds(server) :
                   LET differ ==
                           /\ id \in PageIds(local) \cap PageIds(server)
                           /\ \E a \in MapGet(local.items, id), b \in MapGet(server.items, id) :
                                  ~DeepEqual(a, b)
                   IN  /\ RecordsOf(res, "modified", id) = IF differ THEN 1 ELSE 0
                       /\ RecordsOf(res, "added", id) =
                              IF id \in PageIds(server) \ PageIds(local) THEN 1 ELSE 0
                       /\ RecordsOf(res, "deleted", id) =
                              IF id \in PageIds(local) \ PageIds(server) THEN 1 ELSE 0

----------------------------------------------------------------------------
\* C33: every successful create or update arms the expiry of the list to
\* the full TTL, 30 days unless LIST_TTL_DAYS is set; passive expiry removes
\* a list only when no put of it succeeded during the TTL before; a step
\* that is neither a day passing nor a change of the store (a read, a
\* rejected update) leaves every expiry as it was.
IsCreated(s) == store[s] = NoList /\ store'[s] # NoList /\ resp'.status = 201 /\ resp'.slug = s

C33_SlidingExpiry ==
    [][ LET full == ttlDays(env) * 24 * 60 * 60
        IN  /\ \A s \in Slugs : IsCreated(s) => expiresIn'[s] = full
            /\ \A p \in Procs : Persists(p) => expiresIn'[req[p].slug] = full
            /\ DayPasses =>
                  \A s \in Slugs :
                      (store[s] # NoList /\ store'[s] = NoList)
                          => idleDays[s] + 1 >= ttlDays(env)
            /\ (~DayPasses /\ store' = store) => expiresIn' = expiresIn ]_vars

\* an update was answered with version 2, no put followed it, and the list
\* is on the last day of the default 30 since that update
C33_Witness ==
    /\ ~Has(env, "LIST_TTL_DAYS")
    /\ resp.status = 200 /\ Has(resp, "body") /\ resp.body.version = 2
    /\ store["s1"] # NoList /\ store["s1"].version = 2
    /\ idleDays["s1"] = DefaultTtlDays - 1
    /\ expiresIn["s1"] = SecondsPerDay

----------------------------------------------------------------------------
\* C40: the periodic poll never replaces the local list while the page has
\* unsaved changes, also when the edit was made while the fetch of the poll
\* was in flight.
C40_PollKeepsUnsaved ==
    [][ pollReturn => (isDirty => currentList' = currentList /\ isDirty') ]_vars

\* C31: after a save is rejected with a conflict, Retry sets the version of
\* the local list to that of the server snapshot and sends the save again,
\* and Take Server replaces the local list with the server snapshot.
C31_ConflictChoices ==
    [][ /\ handleRetry =>
              /\ currentList'.version = conflictServerList.version
              /\ pending'["save"].state = "sent"
              /\ pending'["save"].request.version = conflictServerList.version
        /\ handleTakeServer => currentList' = conflictServerList ]_vars


====
